---- MODULE Spec2Model ----
(***************************************************************************)
(* Model of the `launch` submission pipeline (Astera-org/launch).          *)
(*                                                                         *)
(* The program is sequential: every action below is one interaction with   *)
(* the outside world (a kubectl call, a registry request, a sleep) plus    *)
(* the local computation that follows it up to the next interaction.       *)
(* `pc` is the position of the main thread in the source.                  *)
(*                                                                         *)
(* Time: std::time::Instant is opaque, the program only ever compares      *)
(* `now + duration` with a deadline created by Deadline::after.  `now` is  *)
(* therefore kept relative to the most recent Deadline::after call.        *)
(* Locals of a function are dropped (set back to their empty value) when   *)
(* the function returns.                                                   *)
(*                                                                         *)
(* Three parts are concurrent and have specifications of their own: the    *)
(* thread "version_check" and the Ctrl-C handler of Cli::run (SpecCli),    *)
(* the thread and the child of Command::output_with_input (SpecProc), and  *)
(* several submissions on one cluster (SpecSecret).  Pure functions are    *)
(* applied to bounded sets of inputs under SpecFun.                        *)
(***************************************************************************)
EXTENDS Integers, Sequences, FiniteSets, TLC

VARIABLES
    pc,          \* position of the main thread
    now,         \* monotonic clock, seconds since the Deadline alive was made
    deadline,    \* the Deadline of the polling loop being run, or NoDeadline
    slept,       \* seconds slept by the polling loop being run
    polls,       \* sleeps taken by the polling loop being run
    status,      \* the local `status`: the PodStatus polled last
    followed,    \* follow_pod_logs calls made by the waiter being run
    wres,        \* Result of wait_for_and_follow_pod_logs
    caller,      \* the function that called wait_for_and_follow_pod_logs
    condition,   \* KatibExecutor::execute: type of the last condition polled
    pre,         \* submit: what lines 129-143 read (builder, flags, git info)
    response,    \* KanikoBuilder::build: what the registry answered
    image,       \* the image reference being built or run
    cfg,         \* submit: what lines 204-228 read (mode, file found)
    databrickscfg_name, \* submit: name of the staged secret, or "None"
    executor,    \* submit: the executor chosen
    manifest,    \* the manifest handed to kubectl create
    builds,      \* number of Builder::build calls
    muts,        \* the mutating calls made on the cluster, in order
    err,         \* the error Cli::run returns, or "None"
    exit_code,   \* the exit code of the process, -1 while it runs
    stderr,      \* lines main wrote to stderr
    log,         \* lines written through the logger by the stage of submit
                 \* being run (the build, the staging of the secret, the
                 \* execution)
    sigints,     \* SIGINTs the Ctrl-C handler has handled
    vthread,     \* position of the thread "version_check"
    cell,        \* latest_version_lock: the Option<Version> under the mutex
    writes,      \* times the thread "version_check" wrote the cell
    hints,       \* times the warning about a newer version was logged
    fin,         \* a function studied on its own: its name and arguments
    fout,        \* the value the function returned
    job,         \* RayExecutor::execute: what `kubectl get job` did last
    input_left,  \* output_with_input: bytes of the input not yet written
    stdin_thread, \* output_with_input: position of the thread writing stdin
    child,       \* output_with_input: the child process
    pipes,       \* output_with_input: the pipes to and from the child
    output_read, \* output_with_input: bytes read from the child
    secret,      \* the cluster: the submission whose file each secret holds
    subs         \* concurrent submissions: the position of each

timeVars == <<now, deadline, slept, polls>>
waitVars == <<status, followed, wres, caller>>
argVars == <<pre, response, image, cfg, databrickscfg_name, executor, manifest>>
outVars == <<builds, muts, err, exit_code, stderr>>
cliVars == <<sigints, vthread, cell, writes, hints>>
funVars == <<fin, fout>>
procVars == <<input_left, stdin_thread, child, pipes, output_read>>
secretVars == <<secret, subs>>
vars == <<pc, timeVars, waitVars, condition, argVars, outVars, log, cliVars,
          funVars, job, procVars, secretVars>>

----------------------------------------------------------------------------
(* Program constants (seconds).                                            *)
KANIKO_POST_BUILD_TIMEOUT == 30
RAY_JOB_CREATION_TIMEOUT == 600
LOG_AVAILABILITY_TIMEOUT == 600
POLLING_INTERVAL == 2

(* Bounds of the model.                                                    *)
MaxPolls == 2        \* sleeps explored per polling loop
SlowCall == 298      \* seconds taken by a slow external call
MaxSigints == 2      \* SIGINTs delivered to the process

NoDeadline == 0 - 1

\* How long an external call (kubectl, log stream) may take.
CallDurations == {0, SlowCall}

----------------------------------------------------------------------------
(* kubectl/pod.rs: PodStatus and its parts.                                *)

PodPhase == {"Pending", "Running", "Succeeded", "Failed", "Unknown"}

\* PodCondition, reduced to the two fields the program reads.
PodCondition ==
    { [type |-> "PodScheduled", reason |-> "Unschedulable"],
      [type |-> "PodScheduled", reason |-> "None"],
      [type |-> "Ready", reason |-> "Unschedulable"] }

\* An Option<String> message: absent, or a sequence of characters.
NoMessage == <<"None">>

\* ContainerStateTerminated.message: absent, or the text written to
\* /dev/termination-log ("_" is white space, "D" stands for the text of a
\* digest).
TerminationMessage == {NoMessage, <<"_", "D", "_">>}

\* ContainerState: Waiting(reason?, message?), Running, Terminated(message?).
ContainerState ==
    { [state |-> "Waiting", reason |-> r, message |-> NoMessage] :
          r \in {"None", "ContainerCreating", "ErrImagePull", "ImagePullBackOff"} }
    \cup { [state |-> "Running", reason |-> "None", message |-> NoMessage] }
    \cup { [state |-> "Terminated", reason |-> "None", message |-> m] :
          m \in TerminationMessage }

\* The container_statuses lists the cluster is taken to answer with: none,
\* one of any state, or two (a container that runs or has terminated next to
\* another one).
ContainerStatusLists ==
    {<<>>}
    \cup { <<c>> : c \in ContainerState }
    \cup { <<c, d>> : c \in { x \in ContainerState : x.state = "Running" },
                     d \in { x \in ContainerState : x.reason = "ImagePullBackOff" } }
    \cup { <<c, c>> : c \in { x \in ContainerState : x.message # NoMessage } }

PodStatus ==
    [ phase : PodPhase,
      conditions : {<<>>} \cup { <<c>> : c \in PodCondition },
      reason : {"None", "Unschedulable"},
      container_statuses : ContainerStatusLists ]

NoStatus == [ phase |-> "None", conditions |-> <<>>, reason |-> "None",
              container_statuses |-> <<>> ]

\* Variant of is_unschedulable that never sees the condition.
is_unschedulable_never(s) == FALSE

\* PodStatus::is_unschedulable
is_unschedulable(s) ==
    \E i \in DOMAIN s.conditions :
        /\ s.conditions[i].type = "PodScheduled"
        /\ s.conditions[i].reason = "Unschedulable"

\* Variant of cannot_pull_image that knows ErrImagePull only.
cannot_pull_image_ErrOnly(c) == c.state = "Waiting" /\ c.reason = "ErrImagePull"

\* ContainerStatus::cannot_pull_image
cannot_pull_image(c) ==
    IF c.state # "Waiting" THEN FALSE
    ELSE IF c.reason = "None" THEN FALSE
    ELSE c.reason \in {"ErrImagePull", "ImagePullBackOff"}

\* Variant of are_logs_available in which the Unknown phase decides nothing.
are_logs_available_unknown_waits(s) ==
    IF is_unschedulable(s) THEN "SomeFalse"
    ELSE IF \E i \in DOMAIN s.container_statuses :
                cannot_pull_image(s.container_statuses[i]) THEN "SomeFalse"
    ELSE IF s.reason = "Unschedulable" THEN "SomeFalse"
    ELSE IF s.phase \in {"Running", "Succeeded", "Failed"} THEN "SomeTrue"
    ELSE "None"

\* PodStatus::are_logs_available: Option<bool> as "SomeTrue", "SomeFalse", "None"
are_logs_available(s) ==
    IF is_unschedulable(s) THEN "SomeFalse"
    ELSE IF \E i \in DOMAIN s.container_statuses :
                cannot_pull_image(s.container_statuses[i]) THEN "SomeFalse"
    ELSE IF s.reason = "Unschedulable" \/ s.phase = "Unknown" THEN "SomeFalse"
    ELSE IF s.phase \in {"Running", "Succeeded", "Failed"} THEN "SomeTrue"
    ELSE "None"

----------------------------------------------------------------------------
(* executor/common.rs: Deadline.                                           *)

\* Variant of Deadline::after that leaves the loop without a deadline.
Deadline_after_unset(timeout) == NoDeadline

\* Deadline::after(timeout): the instant `timeout` after the present, the
\* present being the origin of `now` from here on.
Deadline_after(timeout) == 0 + timeout

\* Variant of Deadline::sleep that also sleeps up to the deadline itself.
Deadline_sleep_le(duration) == now + duration <= deadline

\* Deadline::sleep returns Ok, after sleeping, exactly when there is time to
\* sleep before the deadline; otherwise it returns Err without sleeping.
Deadline_sleep_ok(duration) == now + duration < deadline

\* The Deadline is dropped when its loop is left; the clock is not tracked
\* while no Deadline is alive.
NoTime == <<0, NoDeadline, 0, 0>>

\* The clock, the deadline, and the seconds and times slept become t.
SetTime(t) ==
    /\ now' = t[1]
    /\ deadline' = t[2]
    /\ slept' = t[3]
    /\ polls' = t[4]

----------------------------------------------------------------------------
(* executor/common.rs: wait_for_and_follow_pod_logs.                       *)

\* Variant of lines 88-97 in which a queued pod is an error, as every other
\* status without logs.
WaiterClassify_strict(s) ==
    IF are_logs_available(s) = "SomeTrue" THEN [pc |-> "waiter_follow", res |-> "None"]
    ELSE IF are_logs_available(s) = "SomeFalse"
    THEN [pc |-> "waiter_done", res |-> "BadStatus"]
    ELSE [pc |-> "waiter_sleep", res |-> "None"]

\* Lines 88-97: what the loop does with the status it holds: where it goes
\* next and, when it returns, the Result.
WaiterClassify(s) ==
    IF are_logs_available(s) = "SomeTrue" THEN [pc |-> "waiter_follow", res |-> "None"]
    ELSE IF are_logs_available(s) = "SomeFalse" THEN
        IF is_unschedulable(s) THEN [pc |-> "waiter_done", res |-> "Ok"]
        ELSE [pc |-> "waiter_done", res |-> "BadStatus"]
    ELSE [pc |-> "waiter_sleep", res |-> "None"]

\* Line 92: the warning written when the function returns Ok for a queued
\* pod (the line is kept with the pod it is about).
WaiterWarns(s) ==
    IF are_logs_available(s) = "SomeFalse" /\ is_unschedulable(s)
    THEN {<<"warn: The Pod is unschedulable", caller>>} ELSE {}

\* kubectl.pod(..)?.status followed by lines 88-97: the call, started at t
\* under deadline dl, takes d seconds and either fails (the error is returned
\* as PodLogPollError::Other) or answers a status, which is classified.
WaiterPollAt(t, dl, sl, po) ==
    \E d \in CallDurations :
        \/ /\ pc' = "waiter_done"
           /\ wres' = "Other"
           /\ SetTime(NoTime)
           /\ UNCHANGED <<status, log>>
        \/ \E s \in PodStatus :
            /\ status' = s
            /\ pc' = WaiterClassify(s).pc
            /\ wres' = WaiterClassify(s).res
            /\ log' = log \cup WaiterWarns(s)
            /\ SetTime(IF WaiterClassify(s).pc = "waiter_sleep"
                       THEN <<t + d, dl, sl, po>> ELSE NoTime)

\* Lines 84-97: the deadline is fixed, then the first status is polled.
WaiterEnter ==
    /\ pc = "waiter_enter"
    /\ followed' = 0
    /\ WaiterPollAt(0, Deadline_after(LOG_AVAILABILITY_TIMEOUT), 0, 0)
    /\ UNCHANGED <<caller, condition, argVars, outVars>>
    /\ UNCHANGED <<cliVars, funVars, job, procVars, secretVars>>

\* Lines 99-101: deadline.sleep(POLLING_INTERVAL), or the Timeout error.
WaiterSleep ==
    /\ pc = "waiter_sleep"
    /\ IF Deadline_sleep_ok(POLLING_INTERVAL)
       THEN /\ polls < MaxPolls
            /\ SetTime(<<now + POLLING_INTERVAL, deadline,
                        slept + POLLING_INTERVAL, polls + 1>>)
            /\ pc' = "waiter_poll"
            /\ UNCHANGED wres
       ELSE /\ pc' = "waiter_done"
            /\ wres' = "Timeout"
            /\ SetTime(NoTime)
    /\ UNCHANGED <<status, followed, caller, condition, argVars, outVars, log>>
    /\ UNCHANGED <<cliVars, funVars, job, procVars, secretVars>>

\* Lines 103-109 and 88-97: the next status is polled and classified.
WaiterPoll ==
    /\ pc = "waiter_poll"
    /\ WaiterPollAt(now, deadline, slept, polls)
    /\ UNCHANGED <<followed, caller, condition, argVars, outVars>>
    /\ UNCHANGED <<cliVars, funVars, job, procVars, secretVars>>

\* The cell holds no version: Option::None.
NoVersion == "None"

\* The versions query_latest_version may find, as they compare with the
\* version of the program.
Version == {"older", "same", "newer"}

\* Variant of latest_version_check that reads the version and leaves it in
\* the cell.
latest_version_check_peeking ==
    /\ cell' = cell
    /\ hints' = IF cell # NoVersion /\ cell = "newer" THEN hints + 1 ELSE hints

\* cli.rs: latest_version_check takes the version out of the cell and warns
\* when it is newer than the version of the program.
latest_version_check ==
    /\ cell' = NoVersion
    /\ hints' = IF cell # NoVersion /\ cell = "newer" THEN hints + 1 ELSE hints

\* Lines 112-114 with a SIGINT while the logs are followed: the handler of
\* cli.rs:93-97 runs latest_version_check, kubectl is interrupted with the
\* process group and follow_pod_logs returns.
WaiterFollowSigint ==
    /\ pc = "waiter_follow"
    /\ sigints < MaxSigints
    /\ sigints' = sigints + 1
    /\ latest_version_check
    /\ followed' = followed + 1
    /\ \E r \in {"Ok", "Other"} : wres' = r
    /\ pc' = "waiter_done"
    /\ UNCHANGED <<timeVars, status, caller, condition, argVars, outVars, log,
                   vthread, writes, funVars, job, procVars, secretVars>>

\* Lines 112-114: kubectl.follow_pod_logs(..)? blocks until the stream ends.
WaiterFollow ==
    /\ pc = "waiter_follow"
    /\ followed' = followed + 1
    /\ \E r \in {"Ok", "Other"} : wres' = r
    /\ pc' = "waiter_done"
    /\ UNCHANGED <<timeVars, status, caller, condition, argVars, outVars, log>>
    /\ UNCHANGED <<cliVars, funVars, job, procVars, secretVars>>

WaiterNext ==
    \/ WaiterEnter
    \/ WaiterSleep
    \/ WaiterPoll
    \/ WaiterFollow
    \/ WaiterFollowSigint

----------------------------------------------------------------------------
(* Empty values of the locals.                                             *)
NoPre == [builder |-> "None", allow_dirty |-> FALSE, allow_unpushed |-> FALSE,
          is_clean |-> FALSE, is_pushed |-> FALSE]
\* An absent digest
NoDigest == <<"None">>

NoTag == [len |-> 0, hex |-> FALSE]
NoImage == [registry |-> "None", tag |-> NoTag, digest |-> NoDigest]
NoCfg == [mode |-> "None", found |-> FALSE]

\* No request was made to the registry, or its answer is out of scope.
NoResponse == [kind |-> "None", status |-> 0, digest |-> NoDigest]

\* The experiment was not polled yet.
NoCondition == [type |-> "None", message |-> FALSE]
NoManifest == [kind |-> "None", image |-> NoImage, volumes |-> "None",
               volume_mounts |-> "None"]

\* No function is studied on its own.
NoCall == [fn |-> "None"]

\* kubectl was not run for the submitter Job.
NoOutput == [kind |-> "None", success |-> FALSE, not_found |-> FALSE,
             json |-> FALSE]

\* No command is being run by output_with_input.
NoPipe == [len |-> 0, cap |-> 0, open |-> FALSE]

ProcRest ==
    /\ input_left = 0
    /\ stdin_thread = "none"
    /\ child = [kind |-> [program |-> "None", out |-> "None"], pc |-> "none",
                held |-> 0, emitted |-> 0]
    /\ pipes = [stdin |-> NoPipe, stdout |-> NoPipe, stderr |-> NoPipe]
    /\ output_read = 0

\* No submission runs next to another.
SecretRest ==
    /\ secret = <<>>
    /\ subs = <<>>

\* Everything but pc and caller, before anything ran.
InitRest ==
    /\ now = 0
    /\ deadline = NoDeadline
    /\ slept = 0
    /\ polls = 0
    /\ status = NoStatus
    /\ followed = 0
    /\ wres = "None"
    /\ condition = NoCondition
    /\ pre = NoPre
    /\ response = NoResponse
    /\ image = NoImage
    /\ cfg = NoCfg
    /\ databrickscfg_name = "None"
    /\ executor = "None"
    /\ manifest = NoManifest
    /\ builds = 0
    /\ muts = <<>>
    /\ err = "None"
    /\ exit_code = -1
    /\ stderr = <<>>
    /\ log = {}
    /\ sigints = 0
    /\ vthread = "none"
    /\ cell = NoVersion
    /\ writes = 0
    /\ hints = 0
    /\ fin = NoCall
    /\ fout = NoCall
    /\ job = NoOutput
    /\ ProcRest
    /\ SecretRest

\* The waiter on its own, called once.
InitWaiter ==
    /\ pc = "waiter_enter"
    /\ caller = "none"
    /\ InitRest

SpecWaiter == InitWaiter /\ [][WaiterNext]_vars

----------------------------------------------------------------------------
(* cli/submit.rs: submit, up to the build.                                 *)

\* `return Err(e)` anywhere below submit: every caller passes the error up
\* with `?` until Cli::run returns it to main.
Fail(e) ==
    /\ pc' = "run_return"
    /\ err' = e

\* The frame of wait_for_and_follow_pod_logs is gone once its caller has
\* taken the Result.
DropWaiter ==
    /\ status' = NoStatus
    /\ followed' = 0
    /\ wres' = "None"
    /\ caller' = "none"

BuilderArg == {"Docker", "Kaniko"}

\* Variant of the preflight checks without the check for unpushed commits.
PreflightError_dirty_only(p) ==
    IF ~p.allow_dirty /\ ~p.is_clean /\ p.builder = "Kaniko"
    THEN "There are git changes that have not been committed and pushed"
    ELSE "None"

\* Lines 131-143: the error of the preflight checks, or "None".
PreflightError(p) ==
    IF ~p.allow_dirty /\ ~p.is_clean /\ p.builder = "Kaniko"
    THEN "There are git changes that have not been committed and pushed"
    ELSE IF ~p.allow_unpushed /\ ~p.is_pushed /\ p.builder = "Kaniko"
    THEN "There are git changes that have not been pushed"
    ELSE "None"

\* Lines 131-143: the warnings of the preflight checks.
PreflightWarnings(p) ==
    (IF ~p.allow_dirty /\ ~p.is_clean /\ p.builder = "Docker"
     THEN {<<"warn: Please ensure that you commit all changes", "submit">>} ELSE {})
    \cup
    (IF ~p.allow_unpushed /\ ~p.is_pushed /\ p.builder = "Docker"
     THEN {<<"warn: Please ensure that your commit is pushed", "submit">>} ELSE {})

\* Lines 115-143: the arguments are taken apart, git is probed and the
\* working tree is checked.
SubmitPreflight ==
    /\ pc = "submit"
    /\ \/ \* command.is_empty()
          /\ Fail("Please provide the command to run")
          /\ UNCHANGED <<pre, log>>
       \/ \* git::info()? fails
          /\ Fail("git failed")
          /\ UNCHANGED <<pre, log>>
       \/ \E p \in [builder : BuilderArg, allow_dirty : BOOLEAN,
                    allow_unpushed : BOOLEAN, is_clean : BOOLEAN,
                    is_pushed : BOOLEAN] :
            /\ pre' = p
            /\ IF PreflightError(p) # "None"
               THEN Fail(PreflightError(p)) /\ UNCHANGED log
               ELSE /\ pc' = "submit_build"
                    /\ log' = log \cup PreflightWarnings(p)
                    /\ UNCHANGED err
    /\ UNCHANGED <<timeVars, waitVars, condition, response, image, cfg,
                   databrickscfg_name, executor, manifest, builds, muts,
                   exit_code, stderr>>
    /\ UNCHANGED <<cliVars, funVars, job, procVars, secretVars>>

\* The tag of the image handed to the builder: its length and whether all of
\* its characters are hexadecimal digits.  submit.rs:164 makes the tag
\* "<user>-<random hex>"; builder/kaniko.rs expects the commit hash.
ImageTag ==
    { [len |-> 40, hex |-> TRUE], [len |-> 40, hex |-> FALSE],
      [len |-> 7, hex |-> TRUE], [len |-> 13, hex |-> FALSE] }

UserRandTag == [len |-> 13, hex |-> FALSE]

\* Variant of is_full_git_commit_hash that checks the length only.
is_full_git_commit_hash_len_only(tag) == tag.len = 40

\* git.rs: is_full_git_commit_hash
is_full_git_commit_hash(tag) == tag.len = 40 /\ tag.hex

\* Lines 145-186: the tagged image is made and Builder::build is called.
SubmitBuild ==
    /\ pc = "submit_build"
    /\ builds' = builds + 1
    /\ pre' = NoPre
    /\ IF pre.builder = "Docker"
       THEN /\ image' = [registry |-> "external", tag |-> UserRandTag,
                         digest |-> NoDigest]
            /\ pc' = "docker_build"
       ELSE /\ \E tag \in ImageTag :
                  image' = [registry |-> "cluster-local", tag |-> tag,
                            digest |-> NoDigest]
            /\ pc' = "kaniko_build"
    /\ UNCHANGED <<timeVars, waitVars, condition, response, cfg,
                   databrickscfg_name, executor, manifest, muts, err, exit_code,
                   stderr, log>>
    /\ UNCHANGED <<cliVars, funVars, job, procVars, secretVars>>

----------------------------------------------------------------------------
(* builder/docker.rs: DockerBuilder::build runs `docker build --push`.     *)
DockerBuild ==
    /\ pc = "docker_build"
    /\ \/ Fail("docker build failed") /\ UNCHANGED image
       \/ /\ image' = [image EXCEPT !.digest = <<"L">>]
          /\ pc' = "submit_creds"
          /\ UNCHANGED err
    /\ UNCHANGED <<timeVars, waitVars, condition, pre, response, cfg, databrickscfg_name,
                   executor, manifest, builds, muts, exit_code, stderr, log>>
    /\ UNCHANGED <<cliVars, funVars, job, procVars, secretVars>>

----------------------------------------------------------------------------
(* builder/kaniko.rs: KanikoBuilder::build.                                *)

\* What the registry does with the HEAD request for the manifest: the
\* request fails, or it is answered with a status and perhaps a
\* Docker-Content-Digest header (a well-formed digest, as the unwraps of
\* lines 52 and 257 take for granted).
RegistryResponse ==
    { [kind |-> "error", status |-> 0, digest |-> NoDigest] }
    \cup [ kind : {"response"}, status : {200, 204, 302, 404, 500},
           digest : {NoDigest, <<"R">>, <<"S">>} ]

\* Variant of query_image_digest that takes the header of any response.
query_image_digest_any_status(r) ==
    IF r.kind = "error" THEN <<"Err">>
    ELSE IF r.digest = NoDigest THEN NoDigest ELSE r.digest

\* query_image_digest: <<"Err">>, NoDigest for Ok(None), or the digest
query_image_digest(r) ==
    IF r.kind = "error" THEN <<"Err">>
    ELSE IF r.status >= 200 /\ r.status <= 299
         THEN IF r.digest = NoDigest THEN <<"Err">> ELSE r.digest
         ELSE NoDigest

\* Lines 56-64: what is logged when the image is not taken from the registry.
KanikoQueryLog(q) ==
    IF q = <<"Err">>
    THEN {<<"warn: Failed to check if image is already available", "kaniko">>}
    ELSE {<<"debug: Did not find image in registry", "kaniko">>}

\* Lines 35-65: the tag is checked and the registry asked for the image.
KanikoBuild ==
    /\ pc = "kaniko_build"
    /\ IF ~is_full_git_commit_hash(image.tag)
       THEN Fail("Image tag is not valid") /\ UNCHANGED <<response, image, log>>
       ELSE \E r \in RegistryResponse :
              /\ response' = r
              /\ IF query_image_digest(r) \notin {<<"Err">>, NoDigest}
                 THEN /\ image' = [image EXCEPT !.digest = query_image_digest(r)]
                      /\ pc' = "submit_creds"
                      /\ UNCHANGED <<err, log>>
                 ELSE /\ log' = log \cup KanikoQueryLog(query_image_digest(r))
                      /\ pc' = "kaniko_create"
                      /\ UNCHANGED <<err, image>>
    /\ UNCHANGED <<timeVars, waitVars, condition, pre, cfg, databrickscfg_name,
                   executor, manifest, builds, muts, exit_code, stderr>>
    /\ UNCHANGED <<cliVars, funVars, job, procVars, secretVars>>

\* Lines 67-83: the build pod is created and its logs are waited for.
KanikoCreate ==
    /\ pc = "kaniko_create"
    /\ response' = NoResponse
    /\ \/ \* kubectl.create(..)? fails
          /\ Fail("kubectl create failed")
          /\ UNCHANGED <<muts, manifest, caller>>
       \/ /\ muts' = Append(muts, "create Pod")
          /\ manifest' = [kind |-> "Pod",
                          image |-> [image EXCEPT !.registry = "cluster-local"],
                          volumes |-> "kaniko-cache",
                          volume_mounts |-> "/var/run/uv"]
          /\ caller' = "kaniko"
          /\ pc' = "waiter_enter"
          /\ UNCHANGED err
    /\ UNCHANGED <<timeVars, status, followed, wres, condition, pre, image, cfg,
                   databrickscfg_name, executor, builds, exit_code, stderr, log>>
    /\ UNCHANGED <<cliVars, funVars, job, procVars, secretVars>>

\* str::trim on the termination message.
RECURSIVE TrimStart(_)
TrimStart(m) ==
    IF m # <<>> /\ Head(m) = "_" THEN TrimStart(Tail(m)) ELSE m

RECURSIVE TrimEnd(_)
TrimEnd(m) ==
    IF m # <<>> /\ m[Len(m)] = "_" THEN TrimEnd(SubSeq(m, 1, Len(m) - 1)) ELSE m

Trim(m) == TrimEnd(TrimStart(m))

\* Variant of lines 107-132 that reads the first container status when
\* there are several.
KanikoDigest_first(s) ==
    IF Len(s.container_statuses) = 0
    THEN [ok |-> FALSE, value |-> <<"pod does not have container statuses">>]
    ELSE IF s.container_statuses[1].state # "Terminated"
    THEN [ok |-> FALSE, value |-> <<"unexpected termination state">>]
    ELSE IF s.container_statuses[1].message = NoMessage
    THEN [ok |-> FALSE,
          value |-> <<"build container should have termination state message">>]
    ELSE [ok |-> TRUE, value |-> Trim(s.container_statuses[1].message)]

\* Lines 107-132: the digest in the status of a pod that succeeded, as
\* [ok, value]: the digest, or the error.
KanikoDigest(s) ==
    IF Len(s.container_statuses) = 0
    THEN [ok |-> FALSE, value |-> <<"pod does not have container statuses">>]
    ELSE IF Len(s.container_statuses) > 1
    THEN [ok |-> FALSE, value |-> <<"pod has more than one container statuses">>]
    ELSE IF s.container_statuses[1].state # "Terminated"
    THEN [ok |-> FALSE, value |-> <<"unexpected termination state">>]
    ELSE IF s.container_statuses[1].message = NoMessage
    THEN [ok |-> FALSE,
          value |-> <<"build container should have termination state message">>]
    ELSE [ok |-> TRUE, value |-> Trim(s.container_statuses[1].message)]

\* Variant of lines 88-132 in which every phase but Succeeded and Failed is
\* waited out.
KanikoPollAt_patient(t, dl, sl, po) ==
    \E d \in CallDurations :
        \/ /\ Fail("kubectl get pod failed")
           /\ SetTime(NoTime)
           /\ status' = NoStatus
           /\ UNCHANGED image
        \/ \E s \in PodStatus :
            /\ status' = s
            /\ IF s.phase \notin {"Succeeded", "Failed"}
               THEN /\ pc' = "kaniko_sleep"
                    /\ SetTime(<<t + d, dl, sl, po>>)
                    /\ UNCHANGED <<err, image>>
               ELSE /\ SetTime(NoTime)
                    /\ IF s.phase = "Succeeded"
                       THEN IF KanikoDigest(s).ok
                            THEN /\ image' = [image EXCEPT
                                               !.digest = KanikoDigest(s).value]
                                 /\ pc' = "submit_creds"
                                 /\ UNCHANGED err
                            ELSE Fail(KanikoDigest(s).value[1]) /\ UNCHANGED image
                       ELSE Fail("kaniko build failed, inspect the build output")
                            /\ UNCHANGED image

\* Lines 88-132: the status of the build pod is polled at t under deadline
\* dl, bound to `status` (line 89) and matched on its phase.
KanikoPollAt(t, dl, sl, po) ==
    \E d \in CallDurations :
        \/ \* kubectl.pod(..)? fails
           /\ Fail("kubectl get pod failed")
           /\ SetTime(NoTime)
           /\ status' = NoStatus
           /\ UNCHANGED image
        \/ \E s \in PodStatus :
            /\ status' = s
            /\ IF s.phase = "Running"
               THEN /\ pc' = "kaniko_sleep"
                    /\ SetTime(<<t + d, dl, sl, po>>)
                    /\ UNCHANGED <<err, image>>
               ELSE /\ SetTime(NoTime)
                    /\ IF s.phase = "Succeeded"
                       THEN IF KanikoDigest(s).ok
                            THEN /\ image' = [image EXCEPT
                                               !.digest = KanikoDigest(s).value]
                                 /\ pc' = "submit_creds"
                                 /\ UNCHANGED err
                            ELSE Fail(KanikoDigest(s).value[1]) /\ UNCHANGED image
                       ELSE IF s.phase = "Failed"
                       THEN Fail("kaniko build failed, inspect the build output")
                            /\ UNCHANGED image
                       ELSE Fail("unespected status") /\ UNCHANGED image

\* Lines 83-104: the Result of the waiter is taken; the post-build deadline
\* is fixed and the status polled for the first time.
KanikoPostEnter ==
    /\ pc = "waiter_done"
    /\ caller = "kaniko"
    /\ followed' = 0
    /\ wres' = "None"
    /\ caller' = "none"
    /\ manifest' = NoManifest
    /\ IF wres # "Ok"
       THEN Fail(wres) /\ status' = NoStatus /\ UNCHANGED <<timeVars, image>>
       ELSE KanikoPollAt(0, Deadline_after(KANIKO_POST_BUILD_TIMEOUT), 0, 0)
    /\ UNCHANGED <<condition, pre, response, cfg, databrickscfg_name, executor, builds,
                   muts, exit_code, stderr, log>>
    /\ UNCHANGED <<cliVars, funVars, job, procVars, secretVars>>

\* Lines 93-95: deadline.sleep(POLLING_INTERVAL), or the deadline error;
\* either way the status bound in this turn of the loop is gone.
KanikoSleep ==
    /\ pc = "kaniko_sleep"
    /\ status' = NoStatus
    /\ IF Deadline_sleep_ok(POLLING_INTERVAL)
       THEN /\ polls < MaxPolls
            /\ SetTime(<<now + POLLING_INTERVAL, deadline,
                        slept + POLLING_INTERVAL, polls + 1>>)
            /\ pc' = "kaniko_poll"
            /\ UNCHANGED err
       ELSE /\ Fail("deadline exceeded while waiting for kaniko build pod to finish")
            /\ SetTime(NoTime)
    /\ UNCHANGED <<followed, wres, caller, condition, argVars, builds, muts,
                   exit_code, stderr, log>>
    /\ UNCHANGED <<cliVars, funVars, job, procVars, secretVars>>

\* Lines 88-104, after a sleep.
KanikoPoll ==
    /\ pc = "kaniko_poll"
    /\ KanikoPollAt(now, deadline, slept, polls)
    /\ UNCHANGED <<followed, wres, caller, condition, pre, response, cfg, databrickscfg_name, executor,
                   manifest, builds, muts, exit_code, stderr, log>>
    /\ UNCHANGED <<cliVars, funVars, job, procVars, secretVars>>

----------------------------------------------------------------------------
(* cli/submit.rs: submit, from the built image to the executor.            *)

DatabricksCfgMode == {"Auto", "Require", "Omit"}

\* Variant of lines 204-228 in which Require goes on without the file.
databrickscfg_path_lenient(c) ==
    IF c.mode \in {"Auto", "Require"} /\ c.found THEN "Some" ELSE "None"

\* Lines 204-228: databrickscfg_path as "Some" or "None", or "Err" when
\* submit returns the error.
databrickscfg_path(c) ==
    IF c.mode \in {"Auto", "Require"}
    THEN IF c.found THEN "Some"
         ELSE IF c.mode = "Require" THEN "Err" ELSE "None"
    ELSE "None"

\* Lines 188-228: the builder has returned (its frame is gone), the built
\* image is named by registry and digest, the home directory is found and
\* ~/.databrickscfg is looked for.
SubmitCreds ==
    /\ pc = "submit_creds"
    /\ response' = NoResponse
    /\ status' = NoStatus
    /\ \/ \* home_dir() is None
          /\ Fail("failed to determine home directory")
          /\ log' = {}
          /\ UNCHANGED <<cfg, image>>
       \/ \E c \in [mode : DatabricksCfgMode, found : BOOLEAN] :
            /\ cfg' = c
            /\ image' = [image EXCEPT !.registry = "external"]
            /\ IF databrickscfg_path(c) = "Err"
               THEN /\ Fail("Databricks configuration not found")
                    /\ log' = {}
               ELSE /\ pc' = IF databrickscfg_path(c) = "Some"
                             THEN "secret_delete" ELSE "submit_execute"
                    /\ log' = IF c.mode = "Auto" /\ ~c.found
                              THEN {<<"warn: Databricks configuration not found",
                                      "submit">>}
                              ELSE {}
                    /\ UNCHANGED err
    /\ UNCHANGED <<timeVars, followed, wres, caller, condition, pre,
                   databrickscfg_name, executor, manifest, builds, muts,
                   exit_code, stderr>>
    /\ UNCHANGED <<cliVars, funVars, job, procVars, secretVars>>

\* kubectl.rs: recreate_secret_from_file, `kubectl delete secret
\* --ignore-not-found`
SecretDelete ==
    /\ pc = "secret_delete"
    /\ \/ Fail("kubectl delete secret failed") /\ UNCHANGED muts
       \/ /\ muts' = Append(muts, "delete Secret")
          /\ pc' = "secret_create"
          /\ UNCHANGED err
    /\ UNCHANGED <<timeVars, waitVars, condition, argVars, builds, exit_code,
                   stderr, log>>
    /\ UNCHANGED <<cliVars, funVars, job, procVars, secretVars>>

\* kubectl.rs: recreate_secret_from_file, `kubectl create secret generic
\* --from-file`; submit.rs:230-244 keeps the name of the secret.
SecretCreate ==
    /\ pc = "secret_create"
    /\ \/ Fail("kubectl create secret failed")
          /\ UNCHANGED <<muts, databrickscfg_name>>
       \/ /\ muts' = Append(muts, "create Secret")
          /\ databrickscfg_name' = "databrickscfg-user"
          /\ pc' = "submit_execute"
          /\ UNCHANGED err
    /\ UNCHANGED <<timeVars, waitVars, condition, pre, response, image, cfg, executor,
                   manifest, builds, exit_code, stderr, log>>
    /\ UNCHANGED <<cliVars, funVars, job, procVars, secretVars>>

Workers == {1, 2}

\* Lines 246-259: the executor chosen for the arguments
AnyExecutor(katib_path, workers) ==
    IF katib_path THEN "Katib"
    ELSE IF workers > 1 THEN "Ray" ELSE "Kubernetes"

\* Lines 246-275: the executor is chosen and Executor::execute is called.
SubmitExecute ==
    /\ pc = "submit_execute"
    /\ \E katib_path \in BOOLEAN, workers \in Workers :
         /\ executor' = AnyExecutor(katib_path, workers)
         /\ log' = IF katib_path /\ workers > 1
                   THEN {<<"warn: The katib execution backend ignores the workers argument",
                           "submit">>}
                   ELSE {}
         /\ pc' = IF AnyExecutor(katib_path, workers) = "Katib"
                  THEN "katib_create"
                  ELSE IF AnyExecutor(katib_path, workers) = "Ray"
                  THEN "ray_create" ELSE "kubernetes_create"
    /\ UNCHANGED <<timeVars, waitVars, condition, pre, response, image, cfg,
                   databrickscfg_name, manifest, builds, muts, err, exit_code,
                   stderr>>
    /\ UNCHANGED <<cliVars, funVars, job, procVars, secretVars>>

----------------------------------------------------------------------------
(* executor.rs: what ExecutionArgs puts in a manifest.                     *)

DATABRICKSCFG_MOUNT == "/root/.databrickscfg"

\* ExecutionArgs::volume_mounts
volume_mounts(name) == IF name # "None" THEN DATABRICKSCFG_MOUNT ELSE "None"

\* ExecutionArgs::volumes: the secret the volume is made of, if any
volumes(name) == name

\* The manifest an executor makes of the arguments.
ExecutorManifest(kind) ==
    [kind |-> kind, image |-> image, volumes |-> volumes(databrickscfg_name),
     volume_mounts |-> volume_mounts(databrickscfg_name)]

\* The ExecutionArgs are dead once the manifest has been made of them.
DropArgs ==
    /\ manifest' = NoManifest
    /\ image' = NoImage
    /\ cfg' = NoCfg
    /\ databrickscfg_name' = "None"

\* `kubectl create -f -` with the manifest of an executor: the call fails,
\* or the resource is created and execution goes on at next.
ExecutorCreate(kind, next) ==
    /\ manifest' = ExecutorManifest(kind)
    /\ \/ Fail("kubectl create failed") /\ UNCHANGED muts
       \/ /\ muts' = Append(muts, "create " \o kind)
          /\ pc' = next
          /\ UNCHANGED err

----------------------------------------------------------------------------
(* executor/kubernetes.rs                                                  *)

\* Lines 60-75: the Job is created.
KubernetesCreate ==
    /\ pc = "kubernetes_create"
    /\ ExecutorCreate("Job", "kubernetes_pods")
    /\ UNCHANGED <<timeVars, waitVars, condition, pre, response, image, cfg,
                   databrickscfg_name, executor, builds, exit_code, stderr, log>>
    /\ UNCHANGED <<cliVars, funVars, job, procVars, secretVars>>

PodCounts == 0 .. 3

\* Lines 77-95: the pods of the Job are listed; the logs of the only pod are
\* waited for.
KubernetesPods ==
    /\ pc = "kubernetes_pods"
    /\ DropArgs
    /\ \/ Fail("kubectl get pods failed") /\ UNCHANGED caller
       \/ \E n \in PodCounts :
            IF n = 0 THEN Fail("No pods created for job") /\ UNCHANGED caller
            ELSE IF n > 1
            THEN Fail("Expected only a single Pod") /\ UNCHANGED caller
            ELSE /\ pc' = "waiter_enter"
                 /\ caller' = "kubernetes"
                 /\ UNCHANGED err
    /\ UNCHANGED <<timeVars, status, followed, wres, condition, pre, response, executor,
                   builds, muts, exit_code, stderr, log>>
    /\ UNCHANGED <<cliVars, funVars, job, procVars, secretVars>>

\* Lines 95-97: the `?` on the Result of the waiter, and
\* Ok(ExecutionOutput {}).
KubernetesReturn ==
    /\ pc = "waiter_done"
    /\ caller = "kubernetes"
    /\ DropWaiter
    /\ pc' = "run_return"
    /\ err' = IF wres = "Ok" THEN "None" ELSE wres
    /\ UNCHANGED <<timeVars, condition, argVars, builds, muts, exit_code,
                   stderr, log>>
    /\ UNCHANGED <<cliVars, funVars, job, procVars, secretVars>>

----------------------------------------------------------------------------
(* executor/ray.rs                                                         *)

\* Lines 127-149: the RayJob is created and the deadline for its submitter
\* Job fixed.
RayCreate ==
    /\ pc = "ray_create"
    /\ ExecutorCreate("RayJob", "ray_poll")
    /\ SetTime(IF pc' = "ray_poll"
               THEN <<0, Deadline_after(RAY_JOB_CREATION_TIMEOUT), 0, 0>>
               ELSE NoTime)
    /\ UNCHANGED <<waitVars, condition, pre, response, image, cfg, databrickscfg_name,
                   executor, builds, exit_code, stderr, log>>
    /\ UNCHANGED <<cliVars, funVars, job, procVars, secretVars>>

\* What running `kubectl get job --output=json` may give: the process is
\* not spawned, or it exits: with success, its stdout being the JSON of a
\* Job or not, or without, its stderr starting with
\* "Error from server (NotFound): " or not.
KubectlOutput ==
    { [kind |-> "spawn_error", success |-> FALSE, not_found |-> FALSE,
       json |-> FALSE] }
    \cup [kind : {"exit"}, success : {TRUE}, not_found : {FALSE},
          json : BOOLEAN]
    \cup [kind : {"exit"}, success : {FALSE}, not_found : BOOLEAN,
          json : {FALSE}]

\* Variant of try_get_job for which every failure of kubectl is Ok(None).
try_get_job_lenient(o) ==
    IF o.kind = "spawn_error" THEN "Err"
    ELSE IF o.success THEN IF o.json THEN "Some" ELSE "Err"
    ELSE "None"

\* kubectl.rs: try_get_job, as "Some", "None" or "Err"
try_get_job(o) ==
    IF o.kind = "spawn_error" THEN "Err"
    ELSE IF o.success THEN IF o.json THEN "Some" ELSE "Err"
    ELSE IF o.not_found THEN "None"
    ELSE "Err"

\* Lines 151-160: try_get_job and the match on its Result.
RayPoll ==
    /\ pc = "ray_poll"
    /\ DropArgs
    /\ \E d \in CallDurations, o \in KubectlOutput :
        /\ job' = o
        /\ IF try_get_job(o) = "Err"
           THEN \* Err(error) => return Err(error)
                /\ Fail("kubectl get job failed")
                /\ SetTime(NoTime)
           ELSE IF try_get_job(o) = "Some"
           THEN \* Ok(Some(_)) => break
                /\ pc' = "ray_pods"
                /\ SetTime(NoTime)
                /\ UNCHANGED err
           ELSE \* Ok(None): keep polling
                /\ pc' = "ray_sleep"
                /\ SetTime(<<now + d, deadline, slept, polls>>)
                /\ UNCHANGED err
    /\ UNCHANGED <<waitVars, condition, pre, response, executor, builds, muts, exit_code,
                   stderr, log>>
    /\ UNCHANGED <<cliVars, funVars, procVars, secretVars>>

\* Lines 162-173: deadline.sleep(POLLING_INTERVAL), or the deadline error.
RaySleep ==
    /\ pc = "ray_sleep"
    /\ IF Deadline_sleep_ok(POLLING_INTERVAL)
       THEN /\ polls < MaxPolls
            /\ SetTime(<<now + POLLING_INTERVAL, deadline,
                        slept + POLLING_INTERVAL, polls + 1>>)
            /\ pc' = "ray_poll"
            /\ UNCHANGED err
       ELSE /\ Fail("Deadline exceeded while waiting for job to come into existance")
            /\ SetTime(NoTime)
    /\ UNCHANGED <<waitVars, condition, argVars, builds, muts, exit_code,
                   stderr, log>>
    /\ UNCHANGED <<cliVars, funVars, job, procVars, secretVars>>

\* Lines 181-199: the pods of the submitter Job are listed; the logs of the
\* last are waited for.
RayPods ==
    /\ pc = "ray_pods"
    /\ \/ Fail("kubectl get pods failed") /\ UNCHANGED <<caller, log>>
       \/ \E n \in PodCounts :
            IF n = 0
            THEN Fail("No pods created for job") /\ UNCHANGED <<caller, log>>
            ELSE /\ pc' = "waiter_enter"
                 /\ caller' = "ray"
                 /\ log' = IF n - 1 > 1
                           THEN log \cup {<<"warn: Following logs only for Pod", "ray">>}
                           ELSE log
                 /\ UNCHANGED err
    /\ UNCHANGED <<timeVars, status, followed, wres, condition, argVars, builds,
                   muts, exit_code, stderr>>
    /\ UNCHANGED <<cliVars, funVars, job, procVars, secretVars>>

\* Variant of lines 199-201 that deletes the submitter Job of a queued pod.
RayReturn_deleting ==
    /\ pc = "waiter_done"
    /\ caller = "ray"
    /\ DropWaiter
    /\ pc' = "run_return"
    /\ err' = IF wres = "Ok" THEN "None" ELSE wres
    /\ muts' = IF <<"warn: The Pod is unschedulable", "ray">> \in log
               THEN Append(muts, "delete Job") ELSE muts
    /\ UNCHANGED <<timeVars, condition, argVars, builds, exit_code, stderr,
                   log, cliVars, funVars, job, procVars, secretVars>>

\* Lines 199-201: the `?` on the Result of the waiter, and
\* Ok(ExecutionOutput {}).
RayReturn ==
    /\ pc = "waiter_done"
    /\ caller = "ray"
    /\ DropWaiter
    /\ pc' = "run_return"
    /\ err' = IF wres = "Ok" THEN "None" ELSE wres
    /\ UNCHANGED <<timeVars, condition, argVars, builds, muts, exit_code,
                   stderr, log>>
    /\ UNCHANGED <<cliVars, funVars, job, procVars, secretVars>>

----------------------------------------------------------------------------
(* executor/katib.rs                                                       *)

\* What a poll of the experiment shows: no status yet ("NoStatus"), a
\* status without conditions ("Empty"), or the type of the last condition
\* of the status and whether it carries a message.
ConditionType == {"Created", "Running", "Succeeded", "Failed", "Restarting"}

ExperimentCondition ==
    [type : ConditionType, message : BOOLEAN]
    \cup [type : {"NoStatus", "Empty"}, message : {FALSE}]

\* Variant of terminal_experiment_status that ends on unknown types too.
terminal_experiment_status_unknown_ends(c) ==
    IF c.type = "Empty" THEN "panic"
    ELSE IF c.type = "Failed" THEN IF c.message THEN "Failed" ELSE "panic"
    ELSE IF c.type \in {"Created", "Running"} THEN "None"
    ELSE "Succeeded"

\* terminal_experiment_status: "Succeeded", "Failed", "None", or "panic"
\* where the expect of line 445 or the unwrap of line 450 fails.
terminal_experiment_status(c) ==
    IF c.type = "Empty" THEN "panic"
    ELSE IF c.type = "Succeeded" THEN "Succeeded"
    ELSE IF c.type = "Failed" THEN IF c.message THEN "Failed" ELSE "panic"
    ELSE "None"

\* What the loop logs for the condition: lines 315-322 and 451-454.
KatibLog(c) ==
    IF c.type = "NoStatus" THEN {}
    ELSE IF terminal_experiment_status(c) = "Succeeded"
    THEN {<<"info: Succesfully completed experiment", "katib">>}
    ELSE IF terminal_experiment_status(c) = "Failed"
    THEN {<<"error: Failed to complete experiment", "katib">>}
    ELSE IF terminal_experiment_status(c) = "None"
            /\ c.type \notin {"Created", "Running"}
    THEN {<<"warn: Unknown status condition type", "katib">>}
    ELSE {}

\* Lines 286-299: the experiment spec is read and the Experiment created.
KatibCreate ==
    /\ pc = "katib_create"
    /\ \/ \* read_experiment_spec(..)? fails
          /\ Fail("Failed to read Katib experiment spec file")
          /\ UNCHANGED <<manifest, muts>>
       \/ ExecutorCreate("Experiment", "katib_poll")
    /\ UNCHANGED <<timeVars, waitVars, condition, pre, response, image, cfg,
                   databrickscfg_name, executor, builds, exit_code, stderr, log>>
    /\ UNCHANGED <<cliVars, funVars, job, procVars, secretVars>>

\* Lines 302-324: the experiment is fetched and its status looked at.  A
\* panic of the main thread ends the process with code 101.
KatibPoll ==
    /\ pc = "katib_poll"
    /\ DropArgs
    /\ \/ \* kubectl.katib_experiment(..)? fails
          /\ Fail("kubectl get experiment failed")
          /\ SetTime(NoTime)
          /\ UNCHANGED <<condition, log, exit_code, stderr>>
       \/ \E c \in ExperimentCondition :
            /\ condition' = c
            /\ log' = log \cup KatibLog(c)
            /\ IF c.type # "NoStatus" /\ terminal_experiment_status(c) = "panic"
               THEN /\ pc' = "exited"
                    /\ exit_code' = 101
                    /\ stderr' = Append(stderr, <<"thread 'main' panicked", "katib">>)
                    /\ SetTime(NoTime)
               ELSE IF c.type # "NoStatus" /\ terminal_experiment_status(c) # "None"
               THEN /\ pc' = "run_return"
                    /\ SetTime(NoTime)
                    /\ UNCHANGED <<exit_code, stderr>>
               ELSE /\ pc' = "katib_sleep"
                    /\ UNCHANGED <<timeVars, exit_code, stderr>>
            /\ UNCHANGED err
    /\ UNCHANGED <<waitVars, pre, response, executor, builds, muts>>
    /\ UNCHANGED <<cliVars, funVars, job, procVars, secretVars>>

\* Line 326: std::thread::sleep(POLLING_INTERVAL)
KatibSleep ==
    /\ pc = "katib_sleep"
    /\ polls < MaxPolls
    /\ SetTime(<<now, deadline, slept + POLLING_INTERVAL, polls + 1>>)
    /\ pc' = "katib_poll"
    /\ UNCHANGED <<waitVars, condition, argVars, outVars, log>>
    /\ UNCHANGED <<cliVars, funVars, job, procVars, secretVars>>

----------------------------------------------------------------------------
(* cli.rs: Cli::run and main.rs: main.                                     *)

\* cli.rs:113-127 and main.rs:7-13: the Result of submit reaches main, which
\* prints the error and exits with 1, or returns; no frame of submit is left.
MainExit ==
    /\ pc = "run_return"
    /\ pc' = "exited"
    /\ status' = NoStatus
    /\ IF err = "None"
       THEN exit_code' = 0 /\ UNCHANGED stderr
       ELSE /\ exit_code' = 1
            /\ stderr' = Append(stderr, <<"error: ", err>>)
    /\ UNCHANGED <<timeVars, followed, wres, caller, condition, argVars, builds,
                   muts, err, log>>
    /\ UNCHANGED <<cliVars, funVars, job, procVars, secretVars>>

Init ==
    /\ pc = "submit"
    /\ caller = "none"
    /\ InitRest

Next ==
    \/ SubmitPreflight
    \/ SubmitBuild
    \/ DockerBuild
    \/ KanikoBuild
    \/ KanikoCreate
    \/ KanikoPostEnter
    \/ KanikoSleep
    \/ KanikoPoll
    \/ SubmitCreds
    \/ SecretDelete
    \/ SecretCreate
    \/ SubmitExecute
    \/ KubernetesCreate
    \/ KubernetesPods
    \/ KubernetesReturn
    \/ RayCreate
    \/ RayPoll
    \/ RaySleep
    \/ RayPods
    \/ RayReturn
    \/ KatibCreate
    \/ KatibPoll
    \/ KatibSleep
    \/ MainExit
    \/ WaiterEnter
    \/ WaiterSleep
    \/ WaiterPoll
    \/ WaiterFollow
    \/ WaiterFollowSigint

Spec == Init /\ [][Next]_vars

----------------------------------------------------------------------------
(* cli.rs: Cli::run with the thread "version_check" and the Ctrl-C         *)
(* handler; the command is taken as a whole.                               *)

\* Lines 88-111: the handler is set and the thread spawned.
CliStart ==
    /\ pc = "cli_start"
    /\ vthread' = "querying"
    /\ pc' = "cli_command"
    /\ UNCHANGED <<timeVars, waitVars, condition, argVars, outVars, log,
                   sigints, cell, writes, hints, funVars, job, procVars, secretVars>>

\* Lines 106-110: query_latest_version returns in the thread, which puts a
\* version found in the cell.  The thread lives no longer than the process.
VersionQuery ==
    /\ vthread = "querying"
    /\ pc # "exited"
    /\ vthread' = "done"
    /\ \/ \* None
          UNCHANGED <<cell, writes>>
       \/ \E v \in Version :
            /\ cell' = v
            /\ writes' = writes + 1
    /\ UNCHANGED <<pc, timeVars, waitVars, condition, argVars, outVars, log,
                   sigints, hints, funVars, job, procVars, secretVars>>

Commands == {"Submit", "List", "Logs"}

\* Lines 113-123: the command runs and returns.
CliCommand ==
    /\ pc = "cli_command"
    /\ \E c \in Commands :
         IF c = "Logs"
         THEN \* todo!()
              /\ pc' = "exited"
              /\ exit_code' = 101
              /\ stderr' = Append(stderr, <<"thread 'main' panicked", "cli">>)
              /\ UNCHANGED err
         ELSE /\ \/ Fail("command failed")
                 \/ pc' = "cli_check" /\ UNCHANGED err
              /\ UNCHANGED <<exit_code, stderr>>
    /\ UNCHANGED <<timeVars, waitVars, condition, argVars, builds, muts, log,
                   cliVars, funVars, job, procVars, secretVars>>

\* Lines 93-97: a SIGINT is handled: the handler runs latest_version_check.
CliSigint ==
    /\ pc \in {"cli_command", "cli_check", "run_return"}
    /\ sigints < MaxSigints
    /\ sigints' = sigints + 1
    /\ latest_version_check
    /\ UNCHANGED <<pc, timeVars, waitVars, condition, argVars, outVars, log,
                   vthread, writes, funVars, job, procVars, secretVars>>

\* Variant of line 125 that joins the thread before the check.
CliCheck_joining ==
    /\ pc = "cli_check"
    /\ vthread = "done"
    /\ latest_version_check
    /\ pc' = "run_return"
    /\ UNCHANGED <<timeVars, waitVars, condition, argVars, outVars, log,
                   sigints, vthread, writes, funVars, job, procVars, secretVars>>

\* Line 125: latest_version_check after the command, then Ok(()).
CliCheck ==
    /\ pc = "cli_check"
    /\ latest_version_check
    /\ pc' = "run_return"
    /\ UNCHANGED <<timeVars, waitVars, condition, argVars, outVars, log,
                   sigints, vthread, writes, funVars, job, procVars, secretVars>>

InitCli ==
    /\ pc = "cli_start"
    /\ caller = "none"
    /\ InitRest

NextCli ==
    \/ CliStart
    \/ VersionQuery
    \/ CliCommand
    \/ CliSigint
    \/ CliCheck
    \/ MainExit

SpecCli == InitCli /\ [][NextCli]_vars

\* The main thread is scheduled; nothing is assumed of the thread
\* "version_check", whose query may never return.
SpecCliFair ==
    /\ SpecCli
    /\ WF_vars(CliStart)
    /\ WF_vars(CliCommand)
    /\ WF_vars(CliCheck)
    /\ WF_vars(MainExit)

----------------------------------------------------------------------------
(* Functions studied on their own: fin is the call, fout what it returned. *)

\* A function returns: only the position and the value returned change.
Returns(v) ==
    /\ pc = "fn_call"
    /\ pc' = "fn_done"
    /\ fout' = v
    /\ UNCHANGED <<fin, timeVars, waitVars, condition, argVars, outVars, log,
                   cliVars, job, procVars, secretVars>>

(* executor.rs: ExecutionArgs::annotations, and where the manifests put   *)
(* them.                                                                   *)

VERSION == "launch.astera.org/version"
LAUNCHED_BY_MACHINE_USER == "launch.astera.org/launched-by-machine-user"
LAUNCHED_BY_TAILSCALE_USER == "launch.astera.org/launched-by-tailscale-user"

\* Variant of ExecutionArgs::annotations that always names a Tailscale user.
annotations_always_tailscale(tailscale_user_host) ==
    {VERSION, LAUNCHED_BY_MACHINE_USER, LAUNCHED_BY_TAILSCALE_USER}

\* ExecutionArgs::annotations: the keys, for tailscale_user_host Some (TRUE)
\* or None (FALSE)
annotations(tailscale_user_host) ==
    {VERSION, LAUNCHED_BY_MACHINE_USER}
    \cup (IF tailscale_user_host THEN {LAUNCHED_BY_TAILSCALE_USER} ELSE {})

\* executor/kubernetes.rs: job_spec, the annotations of the Job and of its
\* pod template
job_spec(ts) ==
    [kind |-> "Job", metadata |-> annotations(ts),
     templates |-> <<annotations(ts)>>]

\* executor/ray.rs: ray_job_spec, the annotations of the RayJob and of its
\* head, worker and submitter pod templates
ray_job_spec(ts) ==
    [kind |-> "RayJob", metadata |-> annotations(ts),
     templates |-> <<annotations(ts), annotations(ts), annotations(ts)>>]

\* executor/katib.rs: experiment, the annotations of the Experiment; its
\* trial spec is the Job of common.rs job_spec without metadata, whose pod
\* template keeps its annotations
experiment(ts) ==
    [kind |-> "Experiment", metadata |-> annotations(ts),
     trial_metadata |-> {}, templates |-> <<annotations(ts)>>]

ManifestCalls ==
    [fn : {"manifest"}, kind : {"Job", "RayJob", "Experiment"},
     tailscale_user_host : BOOLEAN]

\* The manifest of an executor is made.
ApplyManifest ==
    /\ fin.fn = "manifest"
    /\ Returns(IF fin.kind = "Job" THEN job_spec(fin.tailscale_user_host)
               ELSE IF fin.kind = "RayJob"
               THEN ray_job_spec(fin.tailscale_user_host)
               ELSE experiment(fin.tailscale_user_host))

(* cli/submit.rs: generate_name.  Strings are sequences of characters.     *)

\* An absent Option<&str>
NoStr == [some |-> FALSE, value |-> <<>>]

Some(s) == [some |-> TRUE, value |-> s]

\* Lines 297-303: the fallback of the executor
FallbackName(e) ==
    IF e = "Kubernetes" THEN <<"j", "o", "b">>
    ELSE IF e = "Katib" THEN <<"k", "a", "t", "i", "b">>
    ELSE <<"r", "a", "y", "-", "j", "o", "b">>

\* Variant of generate_name in which the user is used without a prefix only.
generate_name_either(name_prefix, user, e) ==
    IF name_prefix.some THEN name_prefix.value \o <<"-">>
    ELSE IF user.some THEN user.value \o <<"-">>
    ELSE FallbackName(e) \o <<"-">>

\* generate_name
generate_name(name_prefix, user, e) ==
    LET name1 == IF name_prefix.some
                 THEN name_prefix.value \o <<"-">> ELSE <<>>
        name2 == IF user.some THEN name1 \o user.value \o <<"-">> ELSE name1
    IN  IF name2 = <<>> THEN FallbackName(e) \o <<"-">> ELSE name2

\* Name prefixes that pass expect_name_prefix, and sanitized users
GenerateNameCalls ==
    [fn : {"generate_name"},
     name_prefix : {NoStr, Some(<<"e">>), Some(<<"e", "x", "-", "1">>)},
     user : {NoStr, Some(<<"u">>), Some(<<"a", "l", "-", "b">>)},
     executor : {"Kubernetes", "Katib", "Ray"}]

ApplyGenerateName ==
    /\ fin.fn = "generate_name"
    /\ Returns(generate_name(fin.name_prefix, fin.user, fin.executor))

(* kubectl/name.rs.  A byte is written as its character.                  *)

Lower ==
    {"a", "b", "c", "d", "e", "f", "g", "h", "i", "j", "k", "l", "m", "n",
     "o", "p", "q", "r", "s", "t", "u", "v", "w", "x", "y", "z"}

Digit == {"0", "1", "2", "3", "4", "5", "6", "7", "8", "9"}

is_ascii_lowercase(byte) == byte \in Lower

is_ascii_lowercase_numeric(byte) == byte \in Lower \cup Digit

is_ascii_lowercase_numeric_or_dash(byte) == byte \in Lower \cup Digit \cup {"-"}

is_rfc_1035_label(value) ==
    IF Len(value) = 0 THEN FALSE
    ELSE IF Len(value) = 1 THEN is_ascii_lowercase(value[1])
    ELSE /\ is_ascii_lowercase(value[1])
         /\ \A i \in 2 .. Len(value) - 1 :
               is_ascii_lowercase_numeric_or_dash(value[i])
         /\ is_ascii_lowercase_numeric(value[Len(value)])

\* Variant of LabelStart that starts at the first letter or digit.
LabelStart_numeric(input) ==
    {i \in DOMAIN input : is_ascii_lowercase_numeric(input[i])}

\* Lines 37-43: the indices of the lowercase letters, of which the least is
\* start; none when the set is empty
LabelStart(input) == {i \in DOMAIN input : is_ascii_lowercase(input[i])}

Least(S) == CHOOSE i \in S : \A j \in S : i <= j

Greatest(S) == CHOOSE i \in S : \A j \in S : j <= i

\* Lines 46-59: the index of the last letter or digit after start, or start
\* (the last index of the slice, one less than end)
LabelLast(input, start) ==
    LET after == {i \in DOMAIN input :
                     i > start /\ is_ascii_lowercase_numeric(input[i])}
    IN  IF after = {} THEN start ELSE Greatest(after)

RECURSIVE LabelCopy(_, _, _)
\* Lines 73-87: the loop over the bytes between the first and the last
LabelCopy(bytes, can_append_dash, output) ==
    IF bytes = <<>> THEN output
    ELSE LET byte == Head(bytes)
             to_push == IF is_ascii_lowercase_numeric_or_dash(byte)
                        THEN <<byte>>
                        ELSE IF can_append_dash THEN <<"-">>
                        ELSE <<>>
         IN  IF to_push # <<>>
             THEN LabelCopy(Tail(bytes), to_push[1] # "-", output \o to_push)
             ELSE LabelCopy(Tail(bytes), can_append_dash, output)

to_rfc_1035_label_lossy(input) ==
    IF LabelStart(input) = {} THEN NoStr
    ELSE LET start == Least(LabelStart(input))
             last == LabelLast(input, start)
             slice == SubSeq(input, start, last)
         IN  IF is_rfc_1035_label(slice) THEN Some(slice)
             ELSE Some(LabelCopy(SubSeq(input, start + 1, last - 1), TRUE,
                                 <<input[start]>>)
                       \o <<input[last]>>)

\* Bound: the length of the inputs of the sanitizer
MaxLabelInput == 4

\* Inputs of a lowercase letter, a digit, a dash, an uppercase letter and
\* another byte
LabelCalls ==
    [fn : {"to_rfc_1035_label_lossy"},
     input : UNION {[1 .. n -> {"a", "1", "-", "X", "."}] :
                       n \in 0 .. MaxLabelInput}]

ApplyLabel ==
    /\ fin.fn = "to_rfc_1035_label_lossy"
    /\ Returns(to_rfc_1035_label_lossy(fin.input))

(* unit/bytes.rs: div_round.  The word of the source has 64 bits; the     *)
(* model keeps the arithmetic of the word at a width that can be          *)
(* enumerated.                                                             *)

\* Bound: the number of bits of the word (64 in the source)
WordBits == 5

\* u64::MAX at this width
MAX == 2 ^ WordBits - 1

wrapping_add(x, y) == (x + y) % (2 ^ WordBits)

\* Variant of div_round that adds half the divisor before dividing.
div_round_adding_half(a, b) == wrapping_add(a, b \div 2) \div b

div_round(a, b) ==
    wrapping_add(a \div b,
                 IF (a % b) >= (b \div 2) + (b % 2) THEN 1 ELSE 0)

DivRoundCalls == [fn : {"div_round"}, a : 0 .. MAX, b : 1 .. MAX]

ApplyDivRound ==
    /\ fin.fn = "div_round"
    /\ Returns(div_round(fin.a, fin.b))

(* bash_escape.rs.  A byte is its number, a string the sequence of its    *)
(* bytes.                                                                  *)

\* Variant of kind in which + needs no quoting.
kind_plus_inert(b) ==
    IF b = 7 THEN "Bell"
    ELSE IF b = 8 THEN "Backspace"
    ELSE IF b = 9 THEN "HorizontalTab"
    ELSE IF b = 27 THEN "Escape"
    ELSE IF b = 12 THEN "FormFeed"
    ELSE IF b = 10 THEN "NewLine"
    ELSE IF b = 13 THEN "CarriageReturn"
    ELSE IF b = 11 THEN "VerticalTab"
    ELSE IF b = 92 THEN "Backslash"
    ELSE IF b = 39 THEN "SingleQuote"
    ELSE IF b \in {43} \cup {44, 45, 46, 47, 95} \cup (48 .. 57) \cup (65 .. 90)
                   \cup (97 .. 122)
    THEN "VerbatimAsciiInert"
    ELSE IF b \in {124, 38, 59, 40, 41, 60, 62, 32, 63, 91, 93, 123, 125, 96, 126,
                   33, 36, 64, 43, 61, 42, 37, 35, 58, 94, 34}
    THEN "VerbatimAscii"
    ELSE IF b \in (0 .. 6) \cup (14 .. 26) \cup (28 .. 31) \cup {127}
    THEN "EscapeX"
    ELSE "VerbatimUtf8"

\* kind: the bytes , - . / _ 0-9 A-Z a-z are inert; the bytes
\* | & ; ( ) < > space ? [ ] { } ` ~ ! $ @ + = * % # : ^ " are not
kind(b) ==
    IF b = 7 THEN "Bell"
    ELSE IF b = 8 THEN "Backspace"
    ELSE IF b = 9 THEN "HorizontalTab"
    ELSE IF b = 27 THEN "Escape"
    ELSE IF b = 12 THEN "FormFeed"
    ELSE IF b = 10 THEN "NewLine"
    ELSE IF b = 13 THEN "CarriageReturn"
    ELSE IF b = 11 THEN "VerticalTab"
    ELSE IF b = 92 THEN "Backslash"
    ELSE IF b = 39 THEN "SingleQuote"
    ELSE IF b \in {44, 45, 46, 47, 95} \cup (48 .. 57) \cup (65 .. 90)
                   \cup (97 .. 122)
    THEN "VerbatimAsciiInert"
    ELSE IF b \in {124, 38, 59, 40, 41, 60, 62, 32, 63, 91, 93, 123, 125, 96, 126,
                   33, 36, 64, 43, 61, 42, 37, 35, 58, 94, 34}
    THEN "VerbatimAscii"
    ELSE IF b \in (0 .. 6) \cup (14 .. 26) \cup (28 .. 31) \cup {127}
    THEN "EscapeX"
    ELSE "VerbatimUtf8"

\* Kind::is_inert
is_inert(k) == k = "VerbatimAsciiInert"

\* hex_half and hex_half_unchecked
hex_half(b) ==
    LET h == b % 16 IN IF h <= 9 THEN 48 + h ELSE 65 + (h - 10)

\* encode_x: backslash, x and two hexadecimal digits
encode_x(b) == <<92, 120, hex_half(b \div 16), hex_half(b)>>

\* arg_encoding_info: the encoding; the encoded length, which only sizes the
\* buffer, is left out
arg_encoding_info(arg) ==
    IF arg = <<>> THEN "Empty"
    ELSE IF \A i \in DOMAIN arg : is_inert(kind(arg[i])) THEN "Verbatim"
    ELSE "AnsiC"

\* No run of verbatim bytes is open
NoRun == 0

\* encode_ansi_c: the bytes pushed for a byte, none when it joins a run
AnsiCAction(b) ==
    LET k == kind(b)
    IN  IF k = "Bell" THEN <<92, 97>>
        ELSE IF k = "Backspace" THEN <<92, 98>>
        ELSE IF k = "Escape" THEN <<92, 101>>
        ELSE IF k = "FormFeed" THEN <<92, 102>>
        ELSE IF k = "NewLine" THEN <<92, 110>>
        ELSE IF k = "CarriageReturn" THEN <<92, 114>>
        ELSE IF k = "HorizontalTab" THEN <<92, 116>>
        ELSE IF k = "VerticalTab" THEN <<92, 118>>
        ELSE IF k = "EscapeX" THEN encode_x(b)
        ELSE IF k = "Backslash" THEN <<92, 92>>
        ELSE IF k = "SingleQuote" THEN <<92, 39>>
        ELSE <<>>

\* encode_ansi_c: finish_run_if_needed, with indices from 1 and end exclusive
finish_run_if_needed(run, out, arg, end) ==
    IF run # NoRun THEN out \o SubSeq(arg, run, end - 1) ELSE out

RECURSIVE AnsiCLoop(_, _, _, _)
\* encode_ansi_c: the loop over the bytes and what follows it
AnsiCLoop(arg, i, run, out) ==
    IF i > Len(arg)
    THEN finish_run_if_needed(run, out, arg, Len(arg) + 1) \o <<39>>
    ELSE IF AnsiCAction(arg[i]) # <<>>
    THEN AnsiCLoop(arg, i + 1, NoRun,
                   finish_run_if_needed(run, out, arg, i)
                       \o AnsiCAction(arg[i]))
    ELSE AnsiCLoop(arg, i + 1, IF run = NoRun THEN i ELSE run, out)

encode_ansi_c(out, arg) == AnsiCLoop(arg, 1, NoRun, out \o <<36, 39>>)

quote_join_one_into(out, arg) ==
    LET encoding == arg_encoding_info(arg)
        sep == IF out # <<>> THEN out \o <<32>> ELSE out
    IN  IF encoding = "Empty" THEN sep \o <<39, 39>>
        ELSE IF encoding = "Verbatim" THEN sep \o arg
        ELSE encode_ansi_c(sep, arg)

RECURSIVE quote_join_into(_, _)
quote_join_into(out, args) ==
    IF args = <<>> THEN out
    ELSE quote_join_into(quote_join_one_into(out, Head(args)), Tail(args))

quote_join(args) == quote_join_into(<<>>, args)

\* Bounds: the number of arguments and the length of an argument
MaxArgs == 2
MaxArgLen == 2

\* Some arguments of the bytes a, $ and DEL, or one argument of any one byte
QuoteJoinCalls ==
    LET Args == UNION {[1 .. n -> {97, 36, 127}] : n \in 0 .. MaxArgLen}
    IN  [fn : {"quote_join"},
         args : UNION {[1 .. n -> Args] : n \in 0 .. MaxArgs}
                \cup {<<<<b>>>> : b \in 0 .. 255}]

ApplyQuoteJoin ==
    /\ fin.fn = "quote_join"
    /\ Returns(quote_join(fin.args))

(* container_image_name/src/lib.rs.  A string is the sequence of its      *)
(* characters.  The regular expression of Indices::from_str is kept as a  *)
(* term, and matched by following the term.                                *)

Upper ==
    {"A", "B", "C", "D", "E", "F", "G", "H", "I", "J", "K", "L", "M", "N",
     "O", "P", "Q", "R", "S", "T", "U", "V", "W", "X", "Y", "Z"}

\* Terms of regular expressions
Cls(S) == [op |-> "cls", set |-> S]
Lit(c) == Cls({c})
Cat(rs) == [op |-> "cat", rs |-> rs]
Alt(rs) == [op |-> "alt", rs |-> rs]
Star(r) == [op |-> "star", r |-> r]
Plus(r) == Cat(<<r, Star(r)>>)
Opt(r) == Alt(<<r, Cat(<<>>)>>)
Rep(r, lo, hi) == [op |-> "rep", r |-> r, lo |-> lo, hi |-> hi]

RECURSIVE Ends(_, _, _)
\* The positions at which a match of r that starts at a position of I ends
Ends(r, s, I) ==
    IF I = {} THEN {}
    ELSE IF r.op = "cls"
    THEN {i + 1 : i \in {j \in I : j <= Len(s) /\ s[j] \in r.set}}
    ELSE IF r.op = "cat"
    THEN IF Len(r.rs) = 0 THEN I
         ELSE Ends(Cat(Tail(r.rs)), s, Ends(Head(r.rs), s, I))
    ELSE IF r.op = "alt"
    THEN IF Len(r.rs) = 0 THEN {}
         ELSE Ends(Head(r.rs), s, I) \cup Ends(Alt(Tail(r.rs)), s, I)
    ELSE IF r.op = "star"
    THEN LET N == I \cup Ends(r.r, s, I)
         IN  IF N = I THEN I ELSE Ends(r, s, N)
    ELSE (IF r.lo <= 0 THEN I ELSE {})
         \cup (IF r.hi = 0 THEN {}
               ELSE Ends(Rep(r.r, r.lo - 1, r.hi - 1), s, Ends(r.r, s, I)))

\* \w of the regex crate: the word characters of Unicode, of which U+00E9
\* stands for those outside ASCII
Word == Lower \cup Upper \cup Digit \cup {"_", "U+00E9"}

\* [+.-_]: the plus sign and the range from '.' to '_'
AlgorithmSeparators ==
    {"+", ".", "/", ":", ";", "<", "=", ">", "?", "@", "[", "\\", "]", "^",
     "_"} \cup Digit \cup Upper

HexDigits == Digit \cup {"a", "b", "c", "d", "e", "f", "A", "B", "C", "D", "E", "F"}

\* (?:(?:(?P<domain>...)(?::(?P<port>[0-9]+))?)\/), where the domain is a
\* component [a-zA-Z0-9](?:[a-zA-Z0-9-]*[a-zA-Z0-9])? and one or more of a
\* dot and a component
RegexRegistry ==
    LET AlphaNumeric == Lower \cup Upper \cup Digit
        Component ==
            Cat(<<Cls(AlphaNumeric),
                  Opt(Cat(<<Star(Cls(AlphaNumeric \cup {"-"})),
                            Cls(AlphaNumeric)>>))>>)
    IN  Cat(<<Component, Plus(Cat(<<Lit("."), Component>>)),
              Opt(Cat(<<Lit(":"), Plus(Cls(Digit))>>)), Lit("/")>>)

\* (?P<name>...)(?:\/(?:...))*, where each component is
\* [a-z0-9]+(?:[_.]|__|[-]*[a-z0-9]+)*
RegexPath ==
    LET Component ==
            Cat(<<Plus(Cls(Lower \cup Digit)),
                  Star(Alt(<<Cls({"_", "."}),
                             Cat(<<Lit("_"), Lit("_")>>),
                             Cat(<<Star(Lit("-")),
                                   Plus(Cls(Lower \cup Digit))>>)>>))>>)
    IN  Cat(<<Component, Star(Cat(<<Lit("/"), Component>>))>>)

\* (?P<tag>[\w][\w.-]{0,127})
RegexTag == Cat(<<Cls(Word), Rep(Cls(Word \cup {".", "-"}), 0, 127)>>)

\* (?P<algorithm>[A-Za-z][A-Za-z0-9]*(?:[+.-_][A-Za-z][A-Za-z0-9]*)*)
RegexAlgorithm ==
    LET Component ==
            Cat(<<Cls(Lower \cup Upper),
                  Star(Cls(Lower \cup Upper \cup Digit))>>)
    IN  Cat(<<Component,
              Star(Cat(<<Cls(AlgorithmSeparators), Component>>))>>)

\* (?P<hex>[0-9a-fA-F]{32,})
RegexHex == Cat(<<Rep(Cls(HexDigits), 32, 32), Star(Cls(HexDigits))>>)

\* (?:@(?P<algorithm>...):(?P<hex>...))
RegexDigest == Cat(<<Lit("@"), RegexAlgorithm, Lit(":"), RegexHex>>)

\* IMAGE_NAME_REGEX, between ^ and $
IMAGE_NAME_REGEX ==
    Cat(<<Opt(RegexRegistry), RegexPath, Opt(Cat(<<Lit(":"), RegexTag>>)),
          Opt(RegexDigest)>>)

\* s matches r from position i to its end
MatchesFrom(r, s, i) == Len(s) + 1 \in Ends(r, s, {i})

\* An absent index; indices count from 1
NoIndex == 0

NoIndices ==
    [registry |-> FALSE, port_start |-> NoIndex, path_start |-> NoIndex,
     tag_start |-> NoIndex, algorithm_start |-> NoIndex,
     hex_start |-> NoIndex]

\* Indices::from_str, lines 214-229: where the groups of the match start.
\* The registry is taken when a match with it exists.
Captures(s) ==
    LET with_registry ==
            {q \in Ends(RegexRegistry, s, {1}) :
                MatchesFrom(Cat(<<RegexPath, Opt(Cat(<<Lit(":"), RegexTag>>)),
                                  Opt(RegexDigest)>>), s, q)}
        path_start ==
            IF with_registry # {} THEN Least(with_registry) ELSE 1
        ports == {k \in 1 .. path_start - 2 : s[k] = ":"}
        tags ==
            {k \in path_start + 1 .. Len(s) :
                /\ s[k - 1] = ":"
                /\ k - 1 \in Ends(RegexPath, s, {path_start})
                /\ MatchesFrom(Cat(<<RegexTag, Opt(RegexDigest)>>), s, k)}
        digests ==
            {k \in path_start + 1 .. Len(s) :
                /\ s[k - 1] = "@"
                /\ k - 1 \in Ends(Cat(<<RegexPath,
                                         Opt(Cat(<<Lit(":"), RegexTag>>))>>),
                                  s, {path_start})
                /\ MatchesFrom(Cat(<<RegexAlgorithm, Lit(":"), RegexHex>>),
                               s, k)}
        algorithm_start ==
            IF digests # {} THEN Least(digests) ELSE NoIndex
        hexes ==
            {k \in algorithm_start + 1 .. Len(s) :
                /\ algorithm_start # NoIndex
                /\ s[k - 1] = ":"
                /\ k - 1 \in Ends(RegexAlgorithm, s, {algorithm_start})
                /\ MatchesFrom(RegexHex, s, k)}
    IN  [registry |-> with_registry # {},
         port_start |-> IF ports # {} THEN Least(ports) + 1 ELSE NoIndex,
         path_start |-> path_start,
         tag_start |-> IF tags # {} THEN Least(tags) ELSE NoIndex,
         algorithm_start |-> algorithm_start,
         hex_start |-> IF hexes # {} THEN Greatest(hexes) ELSE NoIndex]

\* ImageName::new and Indices::from_str
ImageName_new(value) ==
    IF MatchesFrom(IMAGE_NAME_REGEX, value, 1)
    THEN [ok |-> TRUE, buffer |-> value, indices |-> Captures(value)]
    ELSE [ok |-> FALSE, buffer |-> value, indices |-> NoIndices]

\* buffer[from..to], with indices from 1 and the end exclusive
Slice(buffer, from, to) == SubSeq(buffer, from, to - 1)

\* Indices::domain
domain(x) ==
    IF ~x.indices.registry THEN NoStr
    ELSE Some(Slice(x.buffer, 1,
                    IF x.indices.port_start # NoIndex
                    THEN x.indices.port_start - 1
                    ELSE x.indices.path_start - 1))

\* Indices::port
port(x) ==
    IF ~x.indices.registry \/ x.indices.port_start = NoIndex THEN NoStr
    ELSE Some(Slice(x.buffer, x.indices.port_start,
                    x.indices.path_start - 1))

\* Indices::registry
registry(x) ==
    IF ~x.indices.registry THEN NoStr
    ELSE Some(Slice(x.buffer, 1, x.indices.path_start - 1))

\* Indices::path
path(x) ==
    Slice(x.buffer, x.indices.path_start,
          IF x.indices.tag_start # NoIndex THEN x.indices.tag_start - 1
          ELSE IF x.indices.algorithm_start # NoIndex
          THEN x.indices.algorithm_start - 1
          ELSE Len(x.buffer) + 1)

\* Indices::tag
tag(x) ==
    IF x.indices.tag_start = NoIndex THEN NoStr
    ELSE Some(Slice(x.buffer, x.indices.tag_start,
                    IF x.indices.algorithm_start # NoIndex
                    THEN x.indices.algorithm_start - 1
                    ELSE Len(x.buffer) + 1))

\* Indices::digest_algorithm
digest_algorithm(x) ==
    IF x.indices.algorithm_start = NoIndex THEN NoStr
    ELSE Some(Slice(x.buffer, x.indices.algorithm_start,
                    x.indices.hex_start - 1))

\* Indices::digest_hex
digest_hex(x) ==
    IF x.indices.algorithm_start = NoIndex THEN NoStr
    ELSE Some(Slice(x.buffer, x.indices.hex_start, Len(x.buffer) + 1))

\* Indices::digest
digest(x) ==
    IF x.indices.algorithm_start = NoIndex THEN NoStr
    ELSE Some(Slice(x.buffer, x.indices.algorithm_start, Len(x.buffer) + 1))

\* Variant of as_builder that takes the domain for the registry.
as_builder_domain(x) ==
    [registry |-> domain(x), path |-> path(x), tag |-> tag(x),
     digest |-> digest(x)]

\* ImageName::as_builder: ImageNameBuilder::new, with_registry, with_tag,
\* with_digest
as_builder(x) ==
    [registry |-> registry(x), path |-> path(x), tag |-> tag(x),
     digest |-> digest(x)]

\* ImageNameBuilder::build, for a builder made by as_builder
build(b) ==
    ImageName_new(
        (IF b.registry.some THEN b.registry.value \o <<"/">> ELSE <<>>)
        \o b.path
        \o (IF b.tag.some THEN <<":">> \o b.tag.value ELSE <<>>)
        \o (IF b.digest.some THEN <<"@">> \o b.digest.value ELSE <<>>))

\* Strings to parse, made of a registry, a path, a tag and a digest
ImageStrings ==
    LET RegistryParts ==
            {<<>>, <<"r", ".", "i", "o", "/">>,
             <<"r", ".", "i", "o", ":", "5", "/">>}
        PathParts ==
            {<<"a">>, <<"a", "-", "b">>, <<"a", "_", "b">>,
             <<"a", "_", "_", "b">>, <<"a", ".", "b">>, <<"a", "/", "b">>,
             <<"a", "-", "-", "b">>, <<"a", "_">>, <<"a", ".", ".", "b">>,
             <<"a", "_", "_", "_", "b">>, <<"_", "a">>, <<"a", "-">>,
             <<"A">>, <<>>}
        TagParts ==
            {<<>>, <<":", "t">>, <<":", "U+00E9">>, <<":">>, <<":", ".", "t">>}
        HexPart(n) == [i \in 1 .. n |-> IF i % 2 = 0 THEN "a" ELSE "0"]
        DigestParts ==
            {<<>>}
            \cup {<<"@", "s", ":">> \o HexPart(n) : n \in {31, 32, 33}}
            \cup {<<"@", "s", c, "t", ":">> \o HexPart(32) :
                     c \in {"+", ".", "-", "_", "=", "/"}}
    IN  {r \o q \o g \o d :
            r \in RegistryParts, q \in PathParts, g \in TagParts,
            d \in DigestParts}

ImageNameCalls == [fn : {"ImageName::new", "as_builder"}, input : ImageStrings]

\* A string is parsed.
ApplyImageNameNew ==
    /\ fin.fn = "ImageName::new"
    /\ Returns(ImageName_new(fin.input))

\* A string is parsed; if it is an image name it is built again from its
\* builder.
ApplyAsBuilder ==
    /\ fin.fn = "as_builder"
    /\ Returns(LET x == ImageName_new(fin.input)
               IN  [x |-> x,
                    built |-> IF x.ok THEN build(as_builder(x)) ELSE x])

\* ImageNameBuilderRegistry::len for the variant DomainPort: the port and
\* its prefix are counted when there is a port, then the suffix '/'.
ImageNameBuilderRegistry_len(r) ==
    Len(r.domain) + (IF r.port.some THEN 1 + Len(r.port.value) ELSE 0) + 1

\* ImageNameBuilderRegistry::write for the variant DomainPort: the domain,
\* the prefix ':', the port when there is one, then the suffix '/'.
ImageNameBuilderRegistry_write(r) ==
    r.domain \o <<":">> \o (IF r.port.some THEN r.port.value ELSE <<>>)
    \o <<"/">>

\* ImageNameBuilder::new(path).with_domain_and_port(domain, port)
with_domain_and_port(p, d, o) ==
    [registry |-> [domain |-> d, port |-> o], path |-> p]

\* ImageNameBuilder::build for a builder made by with_domain_and_port: the
\* capacity computed for the buffer, and ImageName::new of what is written.
build_domain_port(b) ==
    [capacity |-> ImageNameBuilderRegistry_len(b.registry) + Len(b.path),
     name |-> ImageName_new(ImageNameBuilderRegistry_write(b.registry)
                            \o b.path)]

\* Builders to build: a valid domain, a port or none, a valid path.
DomainPortCalls ==
    [fn : {"with_domain_and_port"},
     domain : {<<"r", ".", "i", "o">>, <<"a", "-", "b", ".", "c">>},
     port : {NoStr, Some(<<"5">>), Some(<<"5", "0", "0", "0">>)},
     path : {<<"a">>, <<"a", "/", "b">>, <<"a", "_", "b">>}]

\* A builder is given a domain and a port, and built.
ApplyDomainPort ==
    /\ fin.fn = "with_domain_and_port"
    /\ Returns(build_domain_port(
                   with_domain_and_port(fin.path, fin.domain, fin.port)))

----------------------------------------------------------------------------
(* executor/katib.rs: trial_state_iter and log_trial_state_changes.        *)

TrialState ==
    {"Pending", "Running", "Failed", "Killed", "EarlyStopped", "Succeeded",
     "MetricsUnavailable"}

\* The names of the trials of the experiment.
Trials == {"s", "t"}

\* A list of trial names paired with one state: (trial, state) for each.
TrialsIn(list, state) == [i \in 1..Len(list) |-> <<list[i], state>>]

\* Variant of trial_state_iter that starts with the pending and the running
\* trials.
trial_state_iter_starting_first(s) ==
    TrialsIn(s.pending_trial_list, "Pending")
    \o TrialsIn(s.running_trial_list, "Running")
    \o TrialsIn(s.succeeded_trial_list, "Succeeded")
    \o TrialsIn(s.failed_trial_list, "Failed")
    \o TrialsIn(s.killed_trial_list, "Killed")
    \o TrialsIn(s.early_stopped_trial_list, "EarlyStopped")
    \o TrialsIn(s.metrics_unavailable_trial_list, "MetricsUnavailable")

\* trial_state_iter: the chain of the seven lists of the status, as the
\* sequence the iterator yields.
trial_state_iter(s) ==
    TrialsIn(s.succeeded_trial_list, "Succeeded")
    \o TrialsIn(s.failed_trial_list, "Failed")
    \o TrialsIn(s.killed_trial_list, "Killed")
    \o TrialsIn(s.early_stopped_trial_list, "EarlyStopped")
    \o TrialsIn(s.metrics_unavailable_trial_list, "MetricsUnavailable")
    \o TrialsIn(s.pending_trial_list, "Pending")
    \o TrialsIn(s.running_trial_list, "Running")

\* Variant of log_trial_state_changes that writes a line for every trial of
\* the status.
RECURSIVE log_trial_state_changes_always(_, _, _)
log_trial_state_changes_always(items, trial_to_state, lines) ==
    IF items = <<>> THEN [trial_to_state |-> trial_to_state, lines |-> lines]
    ELSE log_trial_state_changes_always(
             Tail(items),
             [trial_to_state EXCEPT ![Head(items)[1]] = Head(items)[2]],
             Append(lines, Head(items)))

\* log_trial_state_changes, as the loop over the items of trial_state_iter:
\* the state is inserted in the map ("None" where the map has no entry) and
\* a line is written unless the map held that state; the lines are
\* returned with the map.
RECURSIVE log_trial_state_changes(_, _, _)
log_trial_state_changes(items, trial_to_state, lines) ==
    IF items = <<>> THEN [trial_to_state |-> trial_to_state, lines |-> lines]
    ELSE log_trial_state_changes(
             Tail(items),
             [trial_to_state EXCEPT ![Head(items)[1]] = Head(items)[2]],
             IF trial_to_state[Head(items)[1]] = Head(items)[2]
             THEN lines ELSE Append(lines, Head(items)))

\* The statuses of an experiment: every trial is in at most one of the
\* seven lists (the Katib controller sorts each trial into one), in either
\* order within a list.
ExperimentStatus ==
    LET ListOf(a, o, x) == SelectSeq(o, LAMBDA t : a[t] = x)
    IN  { [ succeeded_trial_list |-> ListOf(a, o, "Succeeded"),
            failed_trial_list |-> ListOf(a, o, "Failed"),
            killed_trial_list |-> ListOf(a, o, "Killed"),
            early_stopped_trial_list |-> ListOf(a, o, "EarlyStopped"),
            metrics_unavailable_trial_list |-> ListOf(a, o, "MetricsUnavailable"),
            pending_trial_list |-> ListOf(a, o, "Pending"),
            running_trial_list |-> ListOf(a, o, "Running") ] :
          a \in [Trials -> TrialState \cup {"None"}],
          o \in {<<"s", "t">>, <<"t", "s">>} }

\* A poll of the experiment: the map kept from the polls before, and the
\* status polled.
TrialLogCalls ==
    [fn : {"log_trial_state_changes"},
     trial_to_state : [Trials -> TrialState \cup {"None"}],
     status : ExperimentStatus]

\* The state changes of one poll are logged.
ApplyTrialLog ==
    /\ fin.fn = "log_trial_state_changes"
    /\ Returns(log_trial_state_changes(trial_state_iter(fin.status),
                                       fin.trial_to_state, <<>>))

InitFun ==
    /\ pc = "fn_call"
    /\ caller = "none"
    /\ now = 0
    /\ deadline = NoDeadline
    /\ slept = 0
    /\ polls = 0
    /\ status = NoStatus
    /\ followed = 0
    /\ wres = "None"
    /\ condition = NoCondition
    /\ pre = NoPre
    /\ response = NoResponse
    /\ image = NoImage
    /\ cfg = NoCfg
    /\ databrickscfg_name = "None"
    /\ executor = "None"
    /\ manifest = NoManifest
    /\ builds = 0
    /\ muts = <<>>
    /\ err = "None"
    /\ exit_code = -1
    /\ stderr = <<>>
    /\ log = {}
    /\ sigints = 0
    /\ vthread = "none"
    /\ cell = NoVersion
    /\ writes = 0
    /\ hints = 0
    /\ fout = NoCall
    /\ job = NoOutput
    /\ ProcRest
    /\ SecretRest
    /\ \/ fin \in ManifestCalls
       \/ fin \in GenerateNameCalls
       \/ fin \in TrialLogCalls
       \/ fin \in DomainPortCalls
       \/ fin \in LabelCalls
       \/ fin \in DivRoundCalls
       \/ fin \in QuoteJoinCalls
       \/ fin \in ImageNameCalls

NextFun ==
    \/ ApplyManifest
    \/ ApplyGenerateName
    \/ ApplyLabel
    \/ ApplyDivRound
    \/ ApplyQuoteJoin
    \/ ApplyImageNameNew
    \/ ApplyAsBuilder
    \/ ApplyTrialLog
    \/ ApplyDomainPort

SpecFun == InitFun /\ [][NextFun]_vars

----------------------------------------------------------------------------
(* process.rs: Command::output_with_input, with the thread that writes the *)
(* input, the child and the pipes between them.  pc is the position of the *)
(* calling thread.                                                         *)

\* The longest input, the largest capacity of a pipe and the most bytes a
\* child emits of its own.
MaxInput == 4
MaxPipe == 2
MaxOutput == 3

\* The children: each reads its stdin to the end.  "cat" writes every byte
\* it reads to `out` before it reads the next, "drain_emit" reads all of
\* its stdin and then writes MaxOutput bytes, "emit_drain" writes them first.
ChildKinds ==
    [program : {"cat", "drain_emit", "emit_drain"}, out : {"stdout", "stderr"}]

\* What output_with_input leaves alone.
ProcFrame ==
    UNCHANGED <<timeVars, waitVars, condition, argVars, builds, muts, exit_code,
                stderr, log, cliVars, funVars, job, secretVars>>

\* Lines 73-95: the child is spawned with three pipes, or the error of
\* spawn is returned; the thread that writes the input is spawned.
ProcSpawn ==
    /\ pc = "proc_spawn"
    /\ \/ /\ pc' = "proc_returned"
          /\ err' = "spawn failed"
          /\ UNCHANGED procVars
       \/ /\ pc' = "proc_read"
          /\ stdin_thread' = "writing"
          /\ child' = [child EXCEPT !.pc = IF child.kind.program = "emit_drain"
                                           THEN "write" ELSE "read"]
          /\ pipes' = [p \in DOMAIN pipes |-> [pipes[p] EXCEPT !.open = TRUE]]
          /\ UNCHANGED <<input_left, output_read, err>>
    /\ ProcFrame

\* Lines 91-94: write_all in the thread: a write puts in the pipe what fits
\* of the input, and blocks while the pipe is full.
StdinWrite ==
    /\ stdin_thread = "writing"
    /\ input_left > 0
    /\ pipes.stdin.len < pipes.stdin.cap
    /\ LET n == IF input_left < pipes.stdin.cap - pipes.stdin.len
                THEN input_left ELSE pipes.stdin.cap - pipes.stdin.len
       IN  /\ input_left' = input_left - n
           /\ pipes' = [pipes EXCEPT !.stdin.len = @ + n]
    /\ UNCHANGED <<pc, stdin_thread, child, output_read, err>>
    /\ ProcFrame

\* Lines 91-95: write_all has returned; the closure ends, which drops
\* `stdin` and closes the pipe.
StdinClose ==
    /\ stdin_thread = "writing"
    /\ input_left = 0
    /\ stdin_thread' = "closed"
    /\ pipes' = [pipes EXCEPT !.stdin.open = FALSE]
    /\ UNCHANGED <<pc, input_left, child, output_read, err>>
    /\ ProcFrame

\* The thread ends after its closure, and can be joined.
StdinEnd ==
    /\ stdin_thread = "closed"
    /\ stdin_thread' = "done"
    /\ UNCHANGED <<pc, input_left, child, pipes, output_read, err>>
    /\ ProcFrame

\* The child reads a byte of its stdin, or finds its end.
ChildRead ==
    /\ child.pc = "read"
    /\ IF pipes.stdin.len > 0
       THEN /\ pipes' = [pipes EXCEPT !.stdin.len = @ - 1]
            /\ child' = IF child.kind.program = "cat"
                        THEN [child EXCEPT !.pc = "write", !.held = 1]
                        ELSE child
       ELSE /\ ~pipes.stdin.open
            /\ child' = [child EXCEPT !.pc = IF child.kind.program = "drain_emit"
                                                /\ child.emitted < MaxOutput
                                             THEN "write" ELSE "exit"]
            /\ UNCHANGED pipes
    /\ UNCHANGED <<pc, input_left, stdin_thread, output_read, err>>
    /\ ProcFrame

\* The child writes a byte to its stdout or stderr, and blocks while that
\* pipe is full.
ChildWrite ==
    /\ child.pc = "write"
    /\ pipes[child.kind.out].len < pipes[child.kind.out].cap
    /\ pipes' = [pipes EXCEPT ![child.kind.out].len = @ + 1]
    /\ child' =
          IF child.kind.program = "cat"
          THEN [child EXCEPT !.pc = "read", !.held = 0]
          ELSE [child EXCEPT
                  !.emitted = @ + 1,
                  !.pc = IF child.emitted + 1 < MaxOutput THEN "write"
                         ELSE IF child.kind.program = "emit_drain" THEN "read"
                         ELSE "exit"]
    /\ UNCHANGED <<pc, input_left, stdin_thread, output_read, err>>
    /\ ProcFrame

\* The child exits, which closes its ends of the pipes.
ChildExit ==
    /\ child.pc = "exit"
    /\ child' = [child EXCEPT !.pc = "exited"]
    /\ pipes' = [pipes EXCEPT !.stdout.open = FALSE, !.stderr.open = FALSE]
    /\ UNCHANGED <<pc, input_left, stdin_thread, output_read, err>>
    /\ ProcFrame

\* Variant of the reading of wait_with_output that does not read the stderr
\* of the child before its stdout has ended.
ProcRead_stdout_first ==
    /\ pc = "proc_read"
    /\ \E p \in {"stdout", "stderr"} :
          /\ pipes[p].len > 0
          /\ p = "stderr" => (pipes.stdout.len = 0 /\ ~pipes.stdout.open)
          /\ output_read' = output_read + pipes[p].len
          /\ pipes' = [pipes EXCEPT ![p].len = 0]
    /\ UNCHANGED <<pc, input_left, stdin_thread, child, err>>
    /\ ProcFrame

\* Line 97: wait_with_output reads what there is in the stdout or in the
\* stderr of the child, whichever has data.
ProcRead ==
    /\ pc = "proc_read"
    /\ \E p \in {"stdout", "stderr"} :
          /\ pipes[p].len > 0
          /\ output_read' = output_read + pipes[p].len
          /\ pipes' = [pipes EXCEPT ![p].len = 0]
    /\ UNCHANGED <<pc, input_left, stdin_thread, child, err>>
    /\ ProcFrame

\* Line 97: wait_with_output returns once both stdout and stderr have ended
\* and the child has exited.
ProcWait ==
    /\ pc = "proc_read"
    /\ \A p \in {"stdout", "stderr"} : pipes[p].len = 0 /\ ~pipes[p].open
    /\ child.pc = "exited"
    /\ pc' = "proc_join"
    /\ UNCHANGED <<procVars, err>>
    /\ ProcFrame

\* Variant of lines 98-105 that returns without joining the thread.
ProcJoin_detached ==
    /\ pc = "proc_join"
    /\ pc' = "proc_returned"
    /\ UNCHANGED <<procVars, err>>
    /\ ProcFrame

\* Lines 98-105: the thread is joined, then Ok(Output) is returned.
ProcJoin ==
    /\ pc = "proc_join"
    /\ stdin_thread = "done"
    /\ pc' = "proc_returned"
    /\ UNCHANGED <<procVars, err>>
    /\ ProcFrame

\* output_with_input is called with an input, for a child, with pipes of
\* some capacity.
InitProc ==
    /\ pc = "proc_spawn"
    /\ caller = "none"
    /\ now = 0
    /\ deadline = NoDeadline
    /\ slept = 0
    /\ polls = 0
    /\ status = NoStatus
    /\ followed = 0
    /\ wres = "None"
    /\ condition = NoCondition
    /\ pre = NoPre
    /\ response = NoResponse
    /\ image = NoImage
    /\ cfg = NoCfg
    /\ databrickscfg_name = "None"
    /\ executor = "None"
    /\ manifest = NoManifest
    /\ builds = 0
    /\ muts = <<>>
    /\ err = "None"
    /\ exit_code = -1
    /\ stderr = <<>>
    /\ log = {}
    /\ sigints = 0
    /\ vthread = "none"
    /\ cell = NoVersion
    /\ writes = 0
    /\ hints = 0
    /\ fin = NoCall
    /\ fout = NoCall
    /\ job = NoOutput
    /\ SecretRest
    /\ input_left \in 0..MaxInput
    /\ stdin_thread = "none"
    /\ \E k \in ChildKinds :
          child = [kind |-> k, pc |-> "none", held |-> 0, emitted |-> 0]
    /\ \E c \in 1..MaxPipe :
          pipes = [p \in {"stdin", "stdout", "stderr"} |->
                      [len |-> 0, cap |-> c, open |-> FALSE]]
    /\ output_read = 0

NextProc ==
    \/ ProcSpawn
    \/ StdinWrite
    \/ StdinClose
    \/ StdinEnd
    \/ ChildRead
    \/ ChildWrite
    \/ ChildExit
    \/ ProcRead
    \/ ProcWait
    \/ ProcJoin

SpecProc == InitProc /\ [][NextProc]_vars

\* Every thread and the child are scheduled: the calling thread, the thread
\* that writes the input, and a child that consumes its stdin and emits its
\* output.
SpecProcFair ==
    /\ SpecProc
    /\ WF_vars(ProcSpawn)
    /\ WF_vars(StdinWrite)
    /\ WF_vars(StdinClose)
    /\ WF_vars(StdinEnd)
    /\ WF_vars(ChildRead)
    /\ WF_vars(ChildWrite)
    /\ WF_vars(ChildExit)
    /\ WF_vars(ProcRead)
    /\ WF_vars(ProcWait)
    /\ WF_vars(ProcJoin)

----------------------------------------------------------------------------
(* Several submissions at once: kubectl.rs recreate_secret_from_file and   *)
(* the creation of the workload in cli/submit.rs, for each of them, on one *)
(* cluster.                                                                *)

\* The submissions that run at once, and the users they run for: the
\* secret of a submission is named after its user.
MaxSubmissions == 2
Submissions == 1..MaxSubmissions
Users == {"u", "v"}

\* No secret of that name, in `secret`; no secret seen, in `mounted`.  A
\* secret is <<i>> when it holds the file of submission i.
NoSecret == <<>>

\* What the concurrent submissions leave alone.
SecretFrame ==
    UNCHANGED <<pc, timeVars, waitVars, condition, argVars, outVars, log,
                cliVars, funVars, job, procVars>>

\* Variant of the first command of recreate_secret_from_file that deletes
\* the secrets of every name.
ConcurrentSecretDelete_every_name ==
    /\ \E i \in DOMAIN subs :
          /\ subs[i].pc = "delete"
          /\ \/ subs' = [subs EXCEPT ![i].pc = "failed"] /\ UNCHANGED secret
             \/ /\ secret' = [n \in DOMAIN secret |-> NoSecret]
                /\ subs' = [subs EXCEPT ![i].pc = "create"]
    /\ SecretFrame

\* kubectl.rs 52-62: `kubectl delete secret --ignore-not-found <name>` of a
\* submission: it fails, or there is no secret of that name any more.
ConcurrentSecretDelete ==
    /\ \E i \in DOMAIN subs :
          /\ subs[i].pc = "delete"
          /\ \/ subs' = [subs EXCEPT ![i].pc = "failed"] /\ UNCHANGED secret
             \/ /\ secret' = [secret EXCEPT ![subs[i].name] = NoSecret]
                /\ subs' = [subs EXCEPT ![i].pc = "create"]
    /\ SecretFrame

\* kubectl.rs 64-76: `kubectl create secret generic --from-file <name>` of
\* a submission: it fails, as it does when a secret of that name exists, or
\* the secret holds the file of the submission and
\* recreate_secret_from_file returns Ok.
ConcurrentSecretCreate ==
    /\ \E i \in DOMAIN subs :
          /\ subs[i].pc = "create"
          /\ \/ subs' = [subs EXCEPT ![i].pc = "failed"] /\ UNCHANGED secret
             \/ /\ secret[subs[i].name] = NoSecret
                /\ secret' = [secret EXCEPT ![subs[i].name] = <<i>>]
                /\ subs' = [subs EXCEPT ![i].pc = "execute"]
    /\ SecretFrame

\* cli/submit.rs 262-275: executor.execute creates the workload whose pod
\* mounts the secret by name; `mounted` keeps what the secret of that name
\* was at that moment.
ConcurrentExecute ==
    /\ \E i \in DOMAIN subs :
          /\ subs[i].pc = "execute"
          /\ \/ subs' = [subs EXCEPT ![i].pc = "failed"]
             \/ subs' = [subs EXCEPT ![i].pc = "created",
                                     ![i].mounted = secret[subs[i].name]]
    /\ UNCHANGED secret
    /\ SecretFrame

\* The submissions start together, each for some user, on a cluster that
\* may hold secrets of earlier submissions (<<0>> is the file of one).
InitSecret ==
    /\ pc = "concurrent"
    /\ caller = "none"
    /\ now = 0
    /\ deadline = NoDeadline
    /\ slept = 0
    /\ polls = 0
    /\ status = NoStatus
    /\ followed = 0
    /\ wres = "None"
    /\ condition = NoCondition
    /\ pre = NoPre
    /\ response = NoResponse
    /\ image = NoImage
    /\ cfg = NoCfg
    /\ databrickscfg_name = "None"
    /\ executor = "None"
    /\ manifest = NoManifest
    /\ builds = 0
    /\ muts = <<>>
    /\ err = "None"
    /\ exit_code = -1
    /\ stderr = <<>>
    /\ log = {}
    /\ sigints = 0
    /\ vthread = "none"
    /\ cell = NoVersion
    /\ writes = 0
    /\ hints = 0
    /\ fin = NoCall
    /\ fout = NoCall
    /\ job = NoOutput
    /\ ProcRest
    /\ secret \in [Users -> {NoSecret, <<0>>}]
    /\ \E names \in [Submissions -> Users] :
          subs = [i \in Submissions |->
                     [name |-> names[i], pc |-> "delete", mounted |-> NoSecret]]

NextSecret ==
    \/ ConcurrentSecretDelete
    \/ ConcurrentSecretCreate
    \/ ConcurrentExecute

SpecSecret == InitSecret /\ [][NextSecret]_vars

----------------------------------------------------------------------------
(* Properties.                                                             *)

\* The cluster was asked to do m.
InMuts(m) == \E i \in DOMAIN muts : muts[i] = m

WaiterPolling == {"waiter_sleep", "waiter_poll"}

\* A status has a container waiting on a failed image pull.
PullBlocked(s) ==
    \E i \in DOMAIN s.container_statuses :
        /\ s.container_statuses[i].state = "Waiting"
        /\ s.container_statuses[i].reason \in {"ErrImagePull", "ImagePullBackOff"}

\* A status says the pod cannot be scheduled: by its PodScheduled condition
\* or by its reason.
Unschedulable(s) ==
    \/ s.reason = "Unschedulable"
    \/ \E i \in DOMAIN s.conditions :
          /\ s.conditions[i].type = "PodScheduled"
          /\ s.conditions[i].reason = "Unschedulable"

\* A status whose logs can be streamed.
LogsReady(s) ==
    /\ s.phase \in {"Running", "Succeeded", "Failed"}
    /\ ~Unschedulable(s)
    /\ ~PullBlocked(s)

\* A status that decides nothing: the loop polls again.
Undetermined(s) ==
    /\ s.phase \notin {"Running", "Succeeded", "Failed", "Unknown"}
    /\ ~Unschedulable(s)
    /\ ~PullBlocked(s)

\* C1: the waiter calls follow_pod_logs exactly once if and only if the
\* status it polled last has phase Running, Succeeded or Failed and is
\* neither unschedulable nor blocked on an image pull; it polls on only
\* after a status that is not such, so in every other outcome
\* follow_pod_logs is not called at all.
C1_FollowOnceIffLogsReady ==
    /\ followed <= 1
    /\ pc \in WaiterPolling => followed = 0 /\ ~LogsReady(status)
    /\ pc = "waiter_follow" => followed = 0 /\ LogsReady(status)
    /\ pc = "waiter_done" => (followed = 1 <=> LogsReady(status))

\* C1: the waiter returned after streaming the logs of a pod that succeeded.
C1_Witness ==
    /\ pc = "waiter_done"
    /\ followed = 1
    /\ status.phase = "Succeeded"

\* C2: whenever the status polled has a container waiting with ErrImagePull
\* or ImagePullBackOff, whatever its phase, the waiter has returned on that
\* poll: it does not sleep again and it has not called follow_pod_logs.
C2_PullFailureEndsWait ==
    PullBlocked(status) =>
        /\ pc = "waiter_done"
        /\ wres \in {"Ok", "BadStatus"}
        /\ followed = 0

\* C2: the waiter returned on a running pod one of whose containers is in
\* ImagePullBackOff.
C2_Witness ==
    /\ pc = "waiter_done"
    /\ status.phase = "Running"
    /\ \E i \in DOMAIN status.container_statuses :
          status.container_statuses[i].reason = "ImagePullBackOff"

\* The part of C3 about sleeping: a sleep is taken only when it ends before
\* the deadline fixed at entry, so the time slept stays below the deadline.
SleepsWithinDeadline ==
    /\ pc \in WaiterPolling =>
          /\ deadline = LOG_AVAILABILITY_TIMEOUT
          /\ slept <= now
          /\ slept = polls * POLLING_INTERVAL
          /\ slept <= LOG_AVAILABILITY_TIMEOUT
    /\ pc = "waiter_poll" => now < deadline

\* C3 as stated: sleeps are taken within the deadline, and the waiter
\* reports Timeout if and only if no poll gave a terminal observation.
C3_TimeoutIffNoTerminalObservation ==
    /\ SleepsWithinDeadline
    /\ pc \in WaiterPolling => Undetermined(status)
    /\ pc = "waiter_done" => (wres = "Timeout" <=> Undetermined(status))

\* C3, amended: sleeps are taken within the deadline, and the waiter reports
\* Timeout if and only if no poll gave a terminal observation and no kubectl
\* call failed; a failed call is reported as the error of the call.
C3_TimeoutIffUndeterminedAndNoCallFailed ==
    /\ SleepsWithinDeadline
    /\ pc \in WaiterPolling => Undetermined(status)
    /\ pc = "waiter_done" =>
          (wres = "Timeout" <=> (Undetermined(status) /\ wres # "Other"))

\* C3: the waiter has slept and polled an undetermined status, and the next
\* sleep would not end before the deadline.
C3_Witness ==
    /\ pc = "waiter_sleep"
    /\ polls >= 1
    /\ now + POLLING_INTERVAL >= deadline

UnschedulableWarning == <<"warn: The Pod is unschedulable", "ray">>

Blocked(p) ==
    /\ p.builder = "Kaniko"
    /\ \/ ~p.is_clean /\ ~p.allow_dirty
       \/ ~p.is_pushed /\ ~p.allow_unpushed

\* C5: with the kaniko builder, a dirty tree without --allow-dirty or an
\* unpushed commit without --allow-unpushed makes submit return an error
\* with no build invoked and no mutating call made on the cluster.
C5_PreflightErrorBeforeBuildAndMutation ==
    Blocked(pre) =>
        /\ pc \in {"run_return", "exited"}
        /\ err \in {"There are git changes that have not been committed and pushed",
                    "There are git changes that have not been pushed"}
        /\ builds = 0
        /\ muts = <<>>
        /\ pc = "exited" => exit_code = 1

\* C5: the process has exited on a clean tree with an unpushed commit.
C5_Witness ==
    /\ pc = "exited"
    /\ pre.builder = "Kaniko"
    /\ pre.is_clean
    /\ ~pre.is_pushed
    /\ ~pre.allow_unpushed

\* The registry answered 2xx with a Docker-Content-Digest header.
HasDigest(r) ==
    /\ r.kind = "response"
    /\ r.status \in 200 .. 299
    /\ r.digest # NoDigest

ExecutorKinds == {"Job", "RayJob", "Experiment"}

SecretTouched == InMuts("delete Secret") \/ InMuts("create Secret")

SecretRecreated ==
    \E i \in DOMAIN muts :
        /\ muts[i] = "delete Secret"
        /\ i + 1 \in DOMAIN muts
        /\ muts[i + 1] = "create Secret"

NothingMounted ==
    /\ ~SecretTouched
    /\ databrickscfg_name = "None"
    /\ manifest.kind \in ExecutorKinds =>
          manifest.volumes = "None" /\ manifest.volume_mounts = "None"

\* C7: Omit never touches the secret and mounts nothing; Auto recreates the
\* secret and mounts it when ~/.databrickscfg exists, and otherwise warns
\* and goes on with no volume and no mount; Require without the file fails
\* the submission before any executor resource is created.
C7_CredentialsFollowMode ==
    /\ cfg.mode = "Omit" => NothingMounted
    /\ (cfg.mode = "Auto" /\ ~cfg.found) =>
          /\ NothingMounted
          /\ pc = "submit_execute" =>
                /\ err = "None"
                /\ <<"warn: Databricks configuration not found", "submit">> \in log
    /\ (cfg.mode = "Auto" /\ cfg.found) =>
          /\ (pc = "submit_execute" \/ manifest.kind \in ExecutorKinds) =>
                SecretRecreated
          /\ manifest.kind \in ExecutorKinds =>
                /\ manifest.volumes = "databrickscfg-user"
                /\ manifest.volume_mounts = "/root/.databrickscfg"
    /\ (cfg.mode = "Require" /\ ~cfg.found) =>
          /\ pc \in {"run_return", "exited"}
          /\ err = "Databricks configuration not found"
          /\ ~SecretTouched
          /\ \A k \in ExecutorKinds : ~InMuts("create " \o k)

\* C7: under Auto with the file present, a RayJob manifest mounts the secret.
C7_Witness ==
    /\ cfg.mode = "Auto"
    /\ cfg.found
    /\ manifest.kind = "RayJob"
    /\ manifest.volumes = "databrickscfg-user"

\* C8: when the experiment reached the terminal condition Failed, the
\* process exits with code 1 after a single `error: <message>` line.
C8_FailedExperimentExitsOne ==
    (pc = "exited" /\ condition.type = "Failed") =>
        /\ exit_code = 1
        /\ Len(stderr) = 1
        /\ stderr[1][1] = "error: "

KatibLoopLeft ==
    /\ executor = "Katib"
    /\ InMuts("create Experiment")
    /\ pc \in {"run_return", "exited"}

\* What is true of every position of the experiment loop: it goes on after
\* a status with no terminal condition, and unknown types are logged.
KatibLoopGoesOn ==
    pc = "katib_sleep" =>
        /\ condition.type \in {"NoStatus", "Created", "Running", "Restarting"}
        /\ condition.type = "Restarting" =>
              <<"warn: Unknown status condition type", "katib">> \in log

\* C9 as stated: the experiment loop ends exactly when the status polled
\* has the terminal condition Succeeded or Failed.
C9_LoopEndsExactlyOnTerminalCondition ==
    /\ KatibLoopGoesOn
    /\ KatibLoopLeft => condition.type \in {"Succeeded", "Failed"}

\* C9, amended: the experiment loop ends when the status polled has the
\* terminal condition Succeeded or Failed, when fetching the experiment
\* fails, and when the status has no condition; Created, Running and
\* unknown types leave it polling.
C9_LoopEndsOnTerminalConditionOrError ==
    /\ KatibLoopGoesOn
    /\ KatibLoopLeft =>
          \/ condition.type \in {"Succeeded", "Failed"}
          \/ err = "kubectl get experiment failed"
          \/ condition.type = "Empty" /\ exit_code = 101

\* C9: the loop slept after an unknown condition type.
C9_Witness ==
    /\ pc = "katib_poll"
    /\ polls >= 1
    /\ condition.type = "Restarting"

\* The loops of the waiter, of the submitter Job and of the build pod sleep
\* under their deadline and poll again before it only.
ThreeLoopsUnderDeadline ==
    /\ pc \in WaiterPolling => deadline = LOG_AVAILABILITY_TIMEOUT
    /\ pc \in {"ray_sleep", "ray_poll"} => deadline = RAY_JOB_CREATION_TIMEOUT
    /\ pc \in {"kaniko_sleep", "kaniko_poll"} =>
          deadline = KANIKO_POST_BUILD_TIMEOUT
    /\ pc \in {"waiter_poll", "ray_poll", "kaniko_poll"} => now < deadline

\* C10 as stated: every polling loop, the experiment loop included, sleeps
\* under a deadline.
C10_EveryLoopUnderDeadline ==
    /\ ThreeLoopsUnderDeadline
    /\ pc \in {"katib_sleep", "katib_poll"} => deadline # NoDeadline

\* C10, amended: the loops of the waiter, of the submitter Job and of the
\* build pod sleep under a deadline and do not poll again past it; the
\* experiment loop has no deadline and sleeps unconditionally.
C10_AllLoopsButKatibUnderDeadline ==
    /\ ThreeLoopsUnderDeadline
    /\ pc \in {"katib_sleep", "katib_poll"} => deadline = NoDeadline

\* C10: the experiment loop has slept twice with no deadline.
C10_Witness ==
    /\ pc = "katib_poll"
    /\ slept >= 2 * POLLING_INTERVAL
    /\ deadline = NoDeadline

Workloads == {"Pod", "Job", "RayJob", "Experiment"}

NoWorkloadDeleted == \A k \in Workloads : ~InMuts("delete " \o k)

C12_RunNeverWaitsForVersionThread ==
    /\ <>(pc = "exited")
    /\ [](writes <= 1)

\* C12: the process has exited while the query was still running.
C12_Witness ==
    /\ pc = "exited"
    /\ vthread = "querying"
    /\ exit_code = 0

Returned(f) == pc = "fn_done" /\ fin.fn = f

RequiredAnnotations(ts) ==
    {"launch.astera.org/version", "launch.astera.org/launched-by-machine-user"}
    \cup (IF ts THEN {"launch.astera.org/launched-by-tailscale-user"} ELSE {})

\* C13: the Job, the RayJob and each of its head, worker and submitter pod
\* templates, and the Experiment carry the version and machine-user
\* annotations, and the tailscale-user annotation exactly when the
\* Tailscale host is known.
C13_ResourcesCarryAnnotations ==
    Returned("manifest") =>
        /\ fout.kind = fin.kind
        /\ fout.metadata = RequiredAnnotations(fin.tailscale_user_host)
        /\ fin.kind = "RayJob" =>
              /\ Len(fout.templates) = 3
              /\ \A i \in 1 .. 3 :
                    fout.templates[i]
                        = RequiredAnnotations(fin.tailscale_user_host)
        /\ fin.kind = "Job" =>
              fout.templates
                  = <<RequiredAnnotations(fin.tailscale_user_host)>>

\* C13: a RayJob was made without a Tailscale host.
C13_Witness ==
    /\ Returned("manifest")
    /\ fin.kind = "RayJob"
    /\ ~fin.tailscale_user_host
    /\ "launch.astera.org/launched-by-tailscale-user" \notin fout.metadata

EndsWithDash(s) == s # <<>> /\ s[Len(s)] = "-"

\* C14 as stated: generate_name is the prefix and a dash when a prefix is
\* given, otherwise the user and a dash when the user is known, otherwise
\* the fallback of the executor; it is never empty and ends with a dash.
C14_PrefixElseUserElseFallback ==
    Returned("generate_name") =>
        /\ EndsWithDash(fout)
        /\ fout = IF fin.name_prefix.some
                  THEN fin.name_prefix.value \o <<"-">>
                  ELSE IF fin.user.some THEN fin.user.value \o <<"-">>
                  ELSE IF fin.executor = "Kubernetes" THEN <<"j", "o", "b", "-">>
                  ELSE IF fin.executor = "Katib"
                  THEN <<"k", "a", "t", "i", "b", "-">>
                  ELSE <<"r", "a", "y", "-", "j", "o", "b", "-">>

\* C14, amended: generate_name is the prefix and a dash when a prefix is
\* given, followed by the user and a dash when the user is known; only when
\* neither is there is it the fallback of the executor and a dash; it is
\* never empty and ends with a dash.
C14_PrefixThenUserElseFallback ==
    Returned("generate_name") =>
        /\ EndsWithDash(fout)
        /\ fout = IF fin.name_prefix.some /\ fin.user.some
                  THEN fin.name_prefix.value \o <<"-">>
                           \o fin.user.value \o <<"-">>
                  ELSE IF fin.name_prefix.some
                  THEN fin.name_prefix.value \o <<"-">>
                  ELSE IF fin.user.some THEN fin.user.value \o <<"-">>
                  ELSE IF fin.executor = "Kubernetes" THEN <<"j", "o", "b", "-">>
                  ELSE IF fin.executor = "Katib"
                  THEN <<"k", "a", "t", "i", "b", "-">>
                  ELSE <<"r", "a", "y", "-", "j", "o", "b", "-">>

\* C14: a name was made of a prefix and a user.
C14_Witness ==
    /\ Returned("generate_name")
    /\ fin.name_prefix.some
    /\ fin.user.some
    /\ Len(fout) = Len(fin.name_prefix.value) + Len(fin.user.value) + 2

\* The regular expression ^[a-z]([-a-z0-9]*[a-z0-9])?$
MatchesLabelRegex(s) ==
    /\ Len(s) >= 1
    /\ s[1] \in Lower
    /\ Len(s) >= 2 =>
          /\ s[Len(s)] \in Lower \cup Digit
          /\ \A i \in 2 .. Len(s) - 1 : s[i] \in Lower \cup Digit \cup {"-"}

\* C18: to_rfc_1035_label_lossy returns none or a string that matches
\* ^[a-z]([-a-z0-9]*[a-z0-9])?$; applied to a label it returned it returns
\* that label; it returns none exactly when the input has no lowercase
\* letter.
C18_LabelOrNoneAndIdempotent ==
    Returned("to_rfc_1035_label_lossy") =>
        /\ fout.some => MatchesLabelRegex(fout.value)
        /\ fout.some => to_rfc_1035_label_lossy(fout.value) = fout
        /\ ~fout.some <=> (\A i \in DOMAIN fin.input : fin.input[i] \notin Lower)

\* C18: a label was made by replacing a byte between a letter and a digit.
C18_Witness ==
    /\ Returned("to_rfc_1035_label_lossy")
    /\ fout.some
    /\ fout.value # fin.input
    /\ \E i \in DOMAIN fin.input : fin.input[i] \in {"X", "."}
    /\ \E i \in DOMAIN fout.value : fout.value[i] = "-"

\* C19 as stated: the sanitizer never returns two dashes in a row.
C19_NeverTwoDashesInARow ==
    (Returned("to_rfc_1035_label_lossy") /\ fout.some) =>
        \A i \in 1 .. Len(fout.value) - 1 :
            ~(fout.value[i] = "-" /\ fout.value[i + 1] = "-")

\* C20: for a >= 0 and b > 0 in the word, div_round(a, b) is the exact
\* quotient (a + b / 2) / b, computed without overflow, also for a = MAX
\* with b = 1 and b = 2.
C20_DivRoundIsExactRoundedQuotient ==
    Returned("div_round") =>
        /\ fout = (fin.a + (fin.b \div 2)) \div fin.b
        /\ (fin.a \div fin.b)
               + (IF (fin.a % fin.b) >= (fin.b \div 2) + (fin.b % 2)
                  THEN 1 ELSE 0)
           <= 2 ^ WordBits - 1

\* C20: the greatest word was divided by two and rounded up.
C20_Witness ==
    /\ Returned("div_round")
    /\ fin.a = 2 ^ WordBits - 1
    /\ fin.b = 2
    /\ fout = 2 ^ (WordBits - 1)

\* The inert set a-z, A-Z, 0-9 and , . / _ -
Inert ==
    (97 .. 122) \cup (65 .. 90) \cup (48 .. 57) \cup {44, 46, 47, 95, 45}

HexDigit(h) == IF h < 10 THEN 48 + h ELSE 55 + h

\* The escape of a byte inside $'...'
Escaped(b) ==
    CASE b = 7 -> <<92, 97>>
      [] b = 8 -> <<92, 98>>
      [] b = 9 -> <<92, 116>>
      [] b = 27 -> <<92, 101>>
      [] b = 12 -> <<92, 102>>
      [] b = 10 -> <<92, 110>>
      [] b = 13 -> <<92, 114>>
      [] b = 11 -> <<92, 118>>
      [] b = 92 -> <<92, 92>>
      [] b = 39 -> <<92, 39>>
      [] b \in (0 .. 6) \cup (14 .. 26) \cup (28 .. 31) \cup {127} ->
            <<92, 120, HexDigit(b \div 16), HexDigit(b % 16)>>
      [] OTHER -> <<b>>

RECURSIVE EscapedAll(_)
EscapedAll(s) == IF s = <<>> THEN <<>> ELSE Escaped(Head(s)) \o EscapedAll(Tail(s))

Quoted(token) ==
    IF token = <<>> THEN <<39, 39>>
    ELSE IF \A i \in DOMAIN token : token[i] \in Inert THEN token
    ELSE <<36, 39>> \o EscapedAll(token) \o <<39>>

RECURSIVE JoinedBySpace(_)
JoinedBySpace(tokens) ==
    IF tokens = <<>> THEN <<>>
    ELSE IF Len(tokens) = 1 THEN Quoted(tokens[1])
    ELSE Quoted(tokens[1]) \o <<32>> \o JoinedBySpace(Tail(tokens))

\* C17: quote_join writes an empty token as '', a token of inert bytes as it
\* is, any other token as $'...' with its bytes escaped; the tokens are
\* joined by one space, and no space leads or trails.
C17_QuoteJoinEncodesAndJoins ==
    Returned("quote_join") =>
        /\ fout = JoinedBySpace(fin.args)
        /\ fout # <<>> => (fout[1] # 32 /\ fout[Len(fout)] # 32)

\* C17: an empty token and a token of a shell byte and a control byte were
\* joined.
C17_Witness ==
    /\ Returned("quote_join")
    /\ fin.args = <<<<>>, <<36, 127>>>>
    /\ fout = <<39, 39, 32, 36, 39, 36, 92, 120, 55, 70, 39>>

\* C15: for every valid image name x, x.as_builder().build() succeeds and
\* is equal to x, and its domain, port, registry, path, tag, digest
\* algorithm and digest hex are those of x.
C15_RebuiltNameEqualsName ==
    (Returned("as_builder") /\ fout.x.ok) =>
        /\ fout.built.ok
        /\ fout.built.buffer = fout.x.buffer
        /\ domain(fout.built) = domain(fout.x)
        /\ port(fout.built) = port(fout.x)
        /\ registry(fout.built) = registry(fout.x)
        /\ path(fout.built) = path(fout.x)
        /\ tag(fout.built) = tag(fout.x)
        /\ digest_algorithm(fout.built) = digest_algorithm(fout.x)
        /\ digest_hex(fout.built) = digest_hex(fout.x)

\* C15: a name with a port, a tag and a digest was built again.
C15_Witness ==
    /\ Returned("as_builder")
    /\ fout.x.ok
    /\ fout.built.ok
    /\ domain(fout.x) = [some |-> TRUE, value |-> <<"r", ".", "i", "o">>]
    /\ port(fout.x) = [some |-> TRUE, value |-> <<"5">>]
    /\ path(fout.x) = <<"a", "/", "b">>
    /\ tag(fout.x) = [some |-> TRUE, value |-> <<"t">>]
    /\ digest_algorithm(fout.x) = [some |-> TRUE, value |-> <<"s", "+", "t">>]
    /\ fout.x.indices.hex_start = Len(fout.x.buffer) - 31

\* The grammar of the specification.  path-component is [a-z0-9]+ followed
\* by any number of a separator and [a-z0-9]+, where a separator is one of
\* _ and ., or __, or dashes.
GrammarPathComponent ==
    Cat(<<Plus(Cls(Lower \cup Digit)),
          Star(Cat(<<Alt(<<Cls({"_", "."}), Cat(<<Lit("_"), Lit("_")>>),
                           Plus(Lit("-"))>>),
                     Plus(Cls(Lower \cup Digit))>>))>>)

GrammarPath ==
    Cat(<<GrammarPathComponent,
          Star(Cat(<<Lit("/"), GrammarPathComponent>>))>>)

GrammarDomainComponent ==
    Cat(<<Cls(Lower \cup Upper \cup Digit),
          Opt(Cat(<<Star(Cls(Lower \cup Upper \cup Digit \cup {"-"})),
                    Cls(Lower \cup Upper \cup Digit)>>))>>)

GrammarRegistry ==
    Cat(<<GrammarDomainComponent,
          Plus(Cat(<<Lit("."), GrammarDomainComponent>>)),
          Opt(Cat(<<Lit(":"), Plus(Cls(Digit))>>)), Lit("/")>>)

GrammarTag == Cat(<<Cls(Word), Rep(Cls(Word \cup {".", "-"}), 0, 127)>>)

\* The components of the algorithm are joined by one of + . - _
GrammarAlgorithm ==
    Cat(<<Cls(Lower \cup Upper), Star(Cls(Lower \cup Upper \cup Digit)),
          Star(Cat(<<Cls({"+", ".", "-", "_"}), Cls(Lower \cup Upper),
                     Star(Cls(Lower \cup Upper \cup Digit))>>))>>)

GrammarHex ==
    Cat(<<Rep(Cls(HexDigits), 32, 32), Star(Cls(HexDigits))>>)

Grammar ==
    Cat(<<Opt(GrammarRegistry), GrammarPath,
          Opt(Cat(<<Lit(":"), GrammarTag>>)),
          Opt(Cat(<<Lit("@"), GrammarAlgorithm, Lit(":"), GrammarHex>>))>>)

\* C16 as stated: a string is accepted exactly when the whole of it matches
\* the grammar, in which no path component ends with a separator and the
\* components of the digest algorithm are joined by one of + . - _ only.
C16_AcceptsExactlyTheGrammar ==
    Returned("ImageName::new") =>
        (fout.ok <=> MatchesFrom(Grammar, fin.input, 1))

----------------------------------------------------------------------------
(* RemoteBuilder and the tag of the image.                                 *)

\* A tag that is a full commit hash: forty hexadecimal digits.
FullHash(t) == t.len = 40 /\ t.hex

\* C21: once RemoteBuilder.build has been given an image whose tag is not a
\* full commit hash, the submission has ended with the error about the tag,
\* the registry was never queried and no build pod was created.
C21_BadTagFailsBeforeRegistryAndPod ==
    (/\ image.registry = "cluster-local"
     /\ ~FullHash(image.tag)
     /\ pc # "kaniko_build") =>
        /\ pc \in {"run_return", "exited"}
        /\ err = "Image tag is not valid"
        /\ response = NoResponse
        /\ ~InMuts("create Pod")
        /\ manifest = NoManifest

\* C21: the build was refused for a tag of forty characters that are not
\* all hexadecimal digits.
C21_Witness ==
    /\ pc = "run_return"
    /\ err = "Image tag is not valid"
    /\ image.tag.len = 40
    /\ ~image.tag.hex

----------------------------------------------------------------------------
(* The waiter and the Unknown phase.                                       *)

\* The PodScheduled condition of the status says Unschedulable.
QueuedByCondition(s) ==
    \E i \in DOMAIN s.conditions :
        s.conditions[i] = [type |-> "PodScheduled", reason |-> "Unschedulable"]

\* C22 as stated: a status of phase Unknown ends the waiter on that poll
\* with BadStatus, without another poll and without streaming logs.
C22_UnknownEndsWithBadStatus ==
    status.phase = "Unknown" =>
        /\ pc = "waiter_done"
        /\ wres = "BadStatus"
        /\ followed = 0

\* C22, amended: a status of phase Unknown ends the waiter on that poll,
\* without another poll and without streaming logs; the Result is BadStatus
\* unless the PodScheduled condition of the status says Unschedulable, in
\* which case it is Ok and the warning about a queued pod is written.
C22_UnknownEndsWithBadStatusUnlessQueued ==
    status.phase = "Unknown" =>
        /\ pc = "waiter_done"
        /\ followed = 0
        /\ wres = IF QueuedByCondition(status) THEN "Ok" ELSE "BadStatus"
        /\ QueuedByCondition(status) =>
              <<"warn: The Pod is unschedulable", caller>> \in log

\* C22: the waiter returned BadStatus on a pod of phase Unknown.
C22_Witness ==
    /\ pc = "waiter_done"
    /\ status.phase = "Unknown"
    /\ wres = "BadStatus"
    /\ followed = 0

----------------------------------------------------------------------------
(* RemoteBuilder after the logs of the build pod.                          *)

\* The post-build poll of RemoteBuilder holds the status it has just read.
KanikoObserved ==
    /\ pc \in {"kaniko_sleep", "submit_creds", "run_return"}
    /\ status # NoStatus

KanikoDeadlineError ==
    "deadline exceeded while waiting for kaniko build pod to finish"

\* The pace of the post-build poll: the deadline is KANIKO_POST_BUILD_TIMEOUT
\* after the logs ended, a sleep lasts POLLING_INTERVAL and is taken only
\* when it ends before the deadline, otherwise the deadline error is
\* returned; a poll follows every sleep.
KanikoPace ==
    /\ pc \in {"kaniko_sleep", "kaniko_poll"} =>
          /\ deadline = KANIKO_POST_BUILD_TIMEOUT
          /\ slept = polls * POLLING_INTERVAL
          /\ slept <= now
    /\ pc = "kaniko_sleep" =>
          IF now + POLLING_INTERVAL < deadline
          THEN /\ pc' = "kaniko_poll"
               /\ now' = now + POLLING_INTERVAL
               /\ polls' = polls + 1
          ELSE /\ pc' = "run_return"
               /\ err' = KanikoDeadlineError
    /\ pc = "kaniko_poll" => pc' \in {"kaniko_sleep", "submit_creds", "run_return"}

\* C23 as stated: after the logs the status is polled every POLLING_INTERVAL
\* until the phase is Succeeded or Failed or the timeout expires; a status
\* of any other phase is followed by a sleep, never by the end of the poll.
C23_OnlyTerminalPhaseOrTimeoutEndsPoll ==
    [][/\ KanikoPace
       /\ (KanikoObserved /\ status.phase \notin {"Succeeded", "Failed"}) =>
              pc = "kaniko_sleep"
       /\ (KanikoObserved /\ status.phase \in {"Succeeded", "Failed"}) =>
              pc \in {"submit_creds", "run_return"}]_vars

\* C23, amended: after the logs were followed successfully the status is
\* polled every POLLING_INTERVAL for as long as the phase read is Running;
\* the poll ends when the phase is Succeeded or Failed, when the timeout
\* expires, when the phase is Pending or Unknown (the build fails with the
\* "unespected status" error at once) or when the kubectl call fails.
C23_PollGoesOnExactlyWhileRunning ==
    [][/\ KanikoPace
       /\ KanikoObserved => (pc = "kaniko_sleep" <=> status.phase = "Running")
       /\ (KanikoObserved /\ status.phase \in {"Pending", "Unknown"}) =>
              /\ pc = "run_return"
              /\ err = "unespected status"
       /\ (pc = "waiter_done" /\ caller = "kaniko" /\ wres # "Ok") =>
              /\ pc' = "run_return"
              /\ err' = wres
              /\ status' = NoStatus
       /\ ((pc = "kaniko_poll" \/ (pc = "waiter_done" /\ caller = "kaniko"
                                      /\ wres = "Ok"))
             /\ pc' = "run_return" /\ status' = NoStatus) =>
              err' = "kubectl get pod failed"]_vars

\* C23: the build pod was read Running, a sleep was taken and the pod was
\* read Running again.
C23_Witness ==
    /\ pc = "kaniko_sleep"
    /\ polls >= 1
    /\ status.phase = "Running"

\* The text of a termination message without the white space around it.
Trimmed(m) ==
    CHOOSE t \in {SubSeq(m, i, j) : i \in 1..(Len(m) + 1), j \in 0..Len(m)} :
        /\ t = <<>> \/ (t[1] # "_" /\ t[Len(t)] # "_")
        /\ \E i \in 1..(Len(m) + 1), j \in 0..Len(m) :
              /\ t = SubSeq(m, i, j)
              /\ \A k \in 1..Len(m) : (k < i \/ k > j) => m[k] = "_"

\* The build pod reports its digest: one container status, Terminated, with
\* a message.
ReportsDigest(s) ==
    /\ Len(s.container_statuses) = 1
    /\ s.container_statuses[1].state = "Terminated"
    /\ s.container_statuses[1].message # NoMessage

\* C24: a build that created a pod returns a digest only after reading a
\* status of phase Succeeded with exactly one container status, Terminated,
\* with a message, and the digest is the message trimmed; a Succeeded status
\* with no or several container statuses, a state that is not Terminated or
\* no message is an error, and phase Failed is the error that points to the
\* build output.
C24_DigestOnlyFromSucceededTerminatedMessage ==
    /\ (pc = "submit_creds" /\ InMuts("create Pod")) =>
          /\ status.phase = "Succeeded"
          /\ ReportsDigest(status)
          /\ image.digest = Trimmed(status.container_statuses[1].message)
          /\ err = "None"
    /\ (KanikoObserved /\ status.phase = "Succeeded" /\ ~ReportsDigest(status)) =>
          /\ pc = "run_return"
          /\ image.digest = NoDigest
          /\ err = IF Len(status.container_statuses) = 0
                   THEN "pod does not have container statuses"
                   ELSE IF Len(status.container_statuses) > 1
                   THEN "pod has more than one container statuses"
                   ELSE IF status.container_statuses[1].state # "Terminated"
                   THEN "unexpected termination state"
                   ELSE "build container should have termination state message"
    /\ (KanikoObserved /\ status.phase = "Failed") =>
          /\ pc = "run_return"
          /\ image.digest = NoDigest
          /\ err = "kaniko build failed, inspect the build output"

\* C24: the build returned the digest written by the one container of a
\* pod that succeeded.
C24_Witness ==
    /\ pc = "submit_creds"
    /\ InMuts("create Pod")
    /\ status.phase = "Succeeded"
    /\ image.digest = <<"D">>

----------------------------------------------------------------------------
(* The DistributedExecutor and the submitter Job.                          *)

\* What `kubectl get job` did last: it found the Job, it said NotFound, or
\* it failed otherwise.
JobFound == job.kind = "exit" /\ job.success /\ job.json
JobNotFound == job.kind = "exit" /\ ~job.success /\ job.not_found
JobCallFailed == job # NoOutput /\ ~JobFound /\ ~JobNotFound

RayDeadlineError ==
    "Deadline exceeded while waiting for job to come into existance"

\* C25: after the RayJob is created the submitter Job is asked for, with a
\* sleep of POLLING_INTERVAL between two calls, under a deadline of
\* RAY_JOB_CREATION_TIMEOUT: a NotFound answer is followed by a sleep and
\* another call, or by the deadline error when the sleep would not end
\* before the deadline; any other failure of kubectl is returned at once;
\* the pods are listed and the log waiter is started only after the Job was
\* found.
C25_JobPolledUntilFoundFailedOrDeadline ==
    [][/\ pc \in {"ray_poll", "ray_sleep"} =>
             /\ deadline = RAY_JOB_CREATION_TIMEOUT
             /\ slept = polls * POLLING_INTERVAL
             /\ slept <= now
             /\ InMuts("create RayJob")
       /\ pc = "ray_poll" =>
             /\ job \in {NoOutput} \cup {j \in KubectlOutput :
                                           j.kind = "exit" /\ j.not_found}
             /\ \/ pc' = "ray_sleep" /\ JobNotFound'
                \/ pc' = "ray_pods" /\ JobFound'
                \/ pc' = "run_return" /\ JobCallFailed'
                                      /\ err' = "kubectl get job failed"
       /\ pc = "ray_sleep" =>
             /\ JobNotFound
             /\ IF now + POLLING_INTERVAL < deadline
                THEN /\ pc' = "ray_poll"
                     /\ now' = now + POLLING_INTERVAL
                     /\ polls' = polls + 1
                ELSE /\ pc' = "run_return"
                     /\ err' = RayDeadlineError
       /\ (pc = "ray_pods" \/ caller = "ray") => JobFound
       /\ pc' = "ray_pods" => pc = "ray_poll"
       /\ caller' = "ray" => (caller = "ray" \/ pc = "ray_pods")]_vars

\* C25: the submitter Job was not found twice, with a sleep in between.
C25_Witness ==
    /\ pc = "ray_sleep"
    /\ polls >= 1
    /\ JobNotFound
    /\ InMuts("create RayJob")

----------------------------------------------------------------------------
(* The log of trial state changes.                                         *)

CompletedTrialStates ==
    {"Succeeded", "Failed", "Killed", "EarlyStopped", "MetricsUnavailable"}

\* The state the status gives a trial: that of the list the trial is in, or
\* "None".
StateIn(s, t) ==
    LET In(list) == \E i \in DOMAIN list : list[i] = t
    IN  IF In(s.succeeded_trial_list) THEN "Succeeded"
        ELSE IF In(s.failed_trial_list) THEN "Failed"
        ELSE IF In(s.killed_trial_list) THEN "Killed"
        ELSE IF In(s.early_stopped_trial_list) THEN "EarlyStopped"
        ELSE IF In(s.metrics_unavailable_trial_list) THEN "MetricsUnavailable"
        ELSE IF In(s.pending_trial_list) THEN "Pending"
        ELSE IF In(s.running_trial_list) THEN "Running"
        ELSE "None"

\* C26: a poll of the experiment writes exactly one line, naming the new
\* state, for each trial whose state in the status differs from the state
\* recorded for it, and no line for any other trial; the lines about
\* completed trials come before the lines about pending and running ones;
\* the states of the status are recorded for the next poll.
C26_OneLinePerChangeCompletedFirst ==
    Returned("log_trial_state_changes") =>
        /\ \A t \in Trials :
              LET new == StateIn(fin.status, t)
                  about == {i \in DOMAIN fout.lines : fout.lines[i][1] = t}
              IN  /\ Cardinality(about) =
                        IF new # "None" /\ new # fin.trial_to_state[t]
                        THEN 1 ELSE 0
                  /\ \A i \in about : fout.lines[i][2] = new
                  /\ fout.trial_to_state[t] =
                        IF new # "None" THEN new ELSE fin.trial_to_state[t]
        /\ \A i, j \in DOMAIN fout.lines :
              (i < j /\ fout.lines[j][2] \in CompletedTrialStates) =>
                  fout.lines[i][2] \in CompletedTrialStates

\* C26: in one poll a trial was found running that was pending, another
\* was found succeeded that was running, and the line about the second
\* comes first.
C26_Witness ==
    /\ Returned("log_trial_state_changes")
    /\ fin.trial_to_state = [t \in Trials |-> IF t = "s" THEN "Pending" ELSE "Running"]
    /\ StateIn(fin.status, "s") = "Running"
    /\ StateIn(fin.status, "t") = "Succeeded"
    /\ fout.lines = << <<"t", "Succeeded">>, <<"s", "Running">> >>

----------------------------------------------------------------------------
(* The hint about a newer version.                                         *)

\* C28: whatever the order of the thread "version_check", the SIGINT
\* handler and the check after the command, the hint about a newer version
\* is logged at most once, each time by a check that takes a version out of
\* the cell that is newer than the version of the program; a check that
\* finds the cell empty, as every check before the thread wrote it does,
\* logs nothing.
C28_HintAtMostOnceAndOnlyForNewer ==
    [][/\ hints' <= 1
       /\ writes' <= 1
       /\ hints' # hints =>
             /\ hints' = hints + 1
             /\ cell = "newer"
             /\ cell' = NoVersion
             /\ writes = 1
       /\ (cell = NoVersion \/ writes = 0) => hints' = hints]_vars

\* C28: the process has ended after a SIGINT was handled and the check
\* after the command was made, the thread had found a newer version, and
\* the hint was logged once.
C28_Witness ==
    /\ pc = "exited"
    /\ exit_code = 0
    /\ sigints >= 1
    /\ writes = 1
    /\ hints = 1

----------------------------------------------------------------------------
(* The builder of image names and a domain with a port.                    *)

\* C30 as stated: for a valid domain d and path p,
\* with_domain_and_port(d, port) and build() give the name "d:port/p" when
\* there is a port and "d/p" when there is none, with registry d and no
\* port, and the string written is as long as the capacity computed from
\* the parts.
C30_DomainPortNameAndLength ==
    Returned("with_domain_and_port") =>
        /\ fout.name.ok
        /\ fout.name.buffer =
              fin.domain
              \o (IF fin.port.some THEN <<":">> \o fin.port.value ELSE <<>>)
              \o <<"/">> \o fin.path
        /\ domain(fout.name) = [some |-> TRUE, value |-> fin.domain]
        /\ port(fout.name) = fin.port
        /\ path(fout.name) = fin.path
        /\ Len(fout.name.buffer) = fout.capacity

----------------------------------------------------------------------------
(* output_with_input does not deadlock.                                    *)

\* The bytes the child writes in all: those it reads, for "cat", or
\* MaxOutput.
ChildOutput(k, n) == IF k.program = "cat" THEN n ELSE MaxOutput

\* C27: the input is written by the helper thread while the calling thread
\* reads the stdout and the stderr of the child; the call returns, whatever
\* the length of the input and the capacity of the pipes, for a child that
\* reads its stdin to the end and writes its output; and when it returns Ok
\* the helper thread has ended, all the input was written and all the
\* output read.
C27_ReturnsAfterJoinWithoutDeadlock ==
    /\ <>(pc = "proc_returned")
    /\ [](pc \in {"proc_join", "proc_returned"} /\ err = "None" =>
             /\ child.pc = "exited"
             /\ \A p \in DOMAIN pipes : pipes[p].len = 0 /\ ~pipes[p].open)
    /\ [](pc = "proc_returned" /\ err = "None" =>
             /\ stdin_thread = "done"
             /\ input_left = 0)
    /\ [](pc = "proc_read" => stdin_thread # "none")

\* C27: the call returned for an input longer than the pipes and the child
\* hold together, written while the output was read.
C27_Witness ==
    /\ pc = "proc_returned"
    /\ err = "None"
    /\ stdin_thread = "done"
    /\ child.kind.program = "cat"
    /\ pipes.stdin.cap = 1
    /\ output_read = MaxInput

----------------------------------------------------------------------------
(* The secret of a submission among concurrent submissions.                *)

\* Another submission uses the secret name of submission i and has run its
\* delete.
Contended(i) ==
    \E j \in DOMAIN subs :
        /\ j # i
        /\ subs[j].name = subs[i].name
        /\ subs[j].pc # "delete"

====
